---- MODULE Spec2Model ----
(***************************************************************************)
(* A model of eodatasets3/images.py: the MeasurementBundler (recording of  *)
(* measurements per grid, valid-data masks, grid naming, geo documents and *)
(* consumption of the masks) and the single-band thumbnail entry points.   *)
(*                                                                         *)
(* Python strings are sequences of one-character strings, so that prefix,  *)
(* suffix, strip and formatting are computed, not assumed.                 *)
(***************************************************************************)
EXTENDS Integers, Sequences, FiniteSets, TLC

\* ------------------------------------------------------------------------
\* Strings
\* ------------------------------------------------------------------------

Range(s) == {s[i] : i \in 1..Len(s)}

MaxOf(S) == CHOOSE x \in S : \A y \in S : y <= x

\* A list built element by element: the sequence f with every element
\* computed once, where a function constructor alone is computed again at
\* each application.
ListOf(f) == SubSeq(f, 1, Len(f))

\* str.startswith
StartsWith(s, p) == Len(p) <= Len(s) /\ SubSeq(s, 1, Len(p)) = p

\* str.endswith
EndsWith(s, p) == Len(p) <= Len(s) /\ SubSeq(s, Len(s) - Len(p) + 1, Len(s)) = p

\* s[::-1]
Reverse(s) == [i \in 1..Len(s) |-> s[Len(s) + 1 - i]]

\* os.path.commonprefix: the longest string that every element starts with
\* ('' for an empty list).
CommonPrefix(names) ==
  IF names = <<>> THEN <<>>
  ELSE LET first == names[1]
           ks == {k \in 0..Len(first) :
                    \A i \in 1..Len(names) : StartsWith(names[i], SubSeq(first, 1, k))}
       IN SubSeq(first, 1, MaxOf(ks))

\* _common_suffix: the common prefix of the reversed names, reversed.
CommonSuffix(names) ==
  Reverse(CommonPrefix([i \in 1..Len(names) |-> Reverse(names[i])]))

\* The characters str.strip("_:") removes.
StripChars == {"_", ":"}

RECURSIVE LStrip(_)
LStrip(s) ==
  IF s # <<>> /\ s[1] \in StripChars THEN LStrip(Tail(s)) ELSE s

\* s.strip("_:")
Strip(s) == Reverse(LStrip(Reverse(LStrip(s))))

\* Python's None for an optional string, and a present string.
NoName == [found |-> FALSE, name |-> <<>>]
SomeName(s) == [found |-> TRUE, name |-> s]

\* options.sort(key=len, reverse=True): a stable sort, longest first.  The
\* first element with the greatest length comes first; the others keep
\* their order.
RECURSIVE SortByLenDesc(_)
SortByLenDesc(opts) ==
  IF opts = <<>> THEN <<>>
  ELSE LET m == MaxOf({Len(opts[i]) : i \in 1..Len(opts)})
           k == CHOOSE i \in 1..Len(opts) :
                  /\ Len(opts[i]) = m
                  /\ \A j \in 1..(i - 1) : Len(opts[j]) # m
       IN <<opts[k]>> \o
          SortByLenDesc(SubSeq(opts, 1, k - 1) \o SubSeq(opts, k + 1, Len(opts)))

\* A search that looks at the group alone, whatever names exist outside it.
FindACommonNameAlone(group_of_names, all_possible_names) ==
  LET options == <<CommonPrefix(group_of_names), CommonSuffix(group_of_names)>>
      stripped == [i \in 1..Len(options) |-> Strip(options[i])]
      longest == SortByLenDesc(stripped)[1]
  IN IF longest = <<>> THEN NoName ELSE SomeName(longest)

\* _find_a_common_name(group_of_names, all_possible_names)
FindACommonName(group_of_names, all_possible_names) ==
  LET non_group_names == all_possible_names \ Range(group_of_names)
      prefix == CommonPrefix(group_of_names)
      opt1 == IF ~ \E n \in non_group_names : StartsWith(n, prefix)
              THEN <<prefix>> ELSE <<>>
      suffix == CommonSuffix(group_of_names)
      options == opt1 \o
                 (IF ~ \E n \in non_group_names : EndsWith(n, suffix)
                  THEN <<suffix>> ELSE <<>>)
  IN IF options = <<>> THEN NoName
     ELSE LET stripped == [i \in 1..Len(options) |-> Strip(options[i])]
              longest == SortByLenDesc(stripped)[1]
          IN IF longest = <<>> THEN NoName ELSE SomeName(longest)

\* "_".join(names)
RECURSIVE JoinUnderscore(_)
JoinUnderscore(names) ==
  IF names = <<>> THEN <<>>
  ELSE IF Len(names) = 1 THEN names[1]
  ELSE names[1] \o <<"_">> \o JoinUnderscore(Tail(names))

\* str(n) for a natural number n.
Digits == <<"0", "1", "2", "3", "4", "5", "6", "7", "8", "9">>

RECURSIVE IntToStr(_)
IntToStr(n) ==
  IF n < 10 THEN <<Digits[n + 1]>>
  ELSE IntToStr(n \div 10) \o <<Digits[(n % 10) + 1]>>

\* string.ascii_letters
Letters ==
  <<"a", "b", "c", "d", "e", "f", "g", "h", "i", "j", "k", "l", "m",
    "n", "o", "p", "q", "r", "s", "t", "u", "v", "w", "x", "y", "z",
    "A", "B", "C", "D", "E", "F", "G", "H", "I", "J", "K", "L", "M",
    "N", "O", "P", "Q", "R", "S", "T", "U", "V", "W", "X", "Y", "Z">>

\* The key of the default grid.
DefaultName == <<"d", "e", "f", "a", "u", "l", "t">>

\* ------------------------------------------------------------------------
\* Grids (GeoBox): shape (rows, cols), affine transform, CRS.
\* The affine's a and e (pixel sizes) are held in tenths of a unit.
\* ------------------------------------------------------------------------

\* grid.crs is None
NoCrs == "None"

\* crs.epsg is None: a CRS with no resolvable authority code.
NoEpsg == "no-epsg"

\* CRS(crs.epsg): the canonical CRS of the EPSG code of crs.  A WKT
\* description of EPSG:32655 and the code itself resolve to the same code.
Epsg(crs) ==
  CASE crs = "WKT:32655" -> "EPSG:32655"
    [] crs \in {"EPSG:32655", "EPSG:4326"} -> crs
    [] OTHER -> NoEpsg

GeoBox(shape, affine, crs) == [crs |-> crs, shape |-> shape, affine |-> affine]

\* record_image, lines 241-242: keep only the EPSG code when there is one.
NormaliseGrid(grid) ==
  IF Epsg(grid.crs) # NoEpsg
  THEN GeoBox(grid.shape, grid.affine, Epsg(grid.crs))
  ELSE grid

NumPixels(grid) == grid.shape[1] * grid.shape[2]

Abs(x) == IF x < 0 THEN -x ELSE x

\* A resolution name that is never truncated: "30.5" for 30.5.
ResolutionNameUntruncated(grid) ==
  LET res_x10 == Abs(grid.affine.a)
  IN IntToStr(res_x10 \div 10) \o <<".">> \o IntToStr(res_x10 % 10)

\* Lines 309-312: the grid's name by resolution.  res_x is |affine.a|; above
\* 1 it is truncated to an int, otherwise the float is formatted as it is
\* ("1.0", "0.5").
ResolutionName(grid) ==
  LET res_x10 == Abs(grid.affine.a)
  IN IF res_x10 > 10
     THEN IntToStr(res_x10 \div 10)
     ELSE IntToStr(res_x10 \div 10) \o <<".">> \o IntToStr(res_x10 % 10)

\* ------------------------------------------------------------------------
\* Pixel values.  Integers stand for themselves; the two non-finite floats
\* are the codes below.
\* ------------------------------------------------------------------------

NaN == 9999
Inf == 9998

\* numpy.isfinite
IsFinite(v) == v \notin {NaN, Inf}

\* math.isnan
IsNan(v) == v = NaN

\* numpy's elementwise a != b: NaN differs from everything, itself included.
NotEqual(a, b) == IsNan(a) \/ IsNan(b) \/ a # b

\* An optional nodata argument: <<>> is None, <<v>> is the value v.
NoneArg == <<>>

\* A validity that compares with nodata in every case, NaN included.
ValidValuesByInequality(img, nodata_arg) ==
  LET nodata == IF nodata_arg = NoneArg
                THEN (IF img.dtype = "float" THEN NaN ELSE 0)
                ELSE nodata_arg[1]
  IN [i \in 1..Len(img.px) |-> NotEqual(img.px[i], nodata)]

\* _expand_valid_data_mask, lines 250-256: the validity of every pixel.
ValidValues(img, nodata_arg) ==
  LET nodata == IF nodata_arg = NoneArg
                THEN (IF img.dtype = "float" THEN NaN ELSE 0)
                ELSE nodata_arg[1]
  IN IF IsNan(nodata)
     THEN [i \in 1..Len(img.px) |-> IsFinite(img.px[i])]
     ELSE [i \in 1..Len(img.px) |-> NotEqual(img.px[i], nodata)]

\* A mask that is overwritten instead of OR'd.
MaskOverwrite(mask, valid_values) == valid_values

\* mask |= valid_values
MaskOr(mask, valid_values) ==
  [i \in 1..Len(mask) |-> mask[i] \/ valid_values[i]]

\* The position of a key in an insertion-ordered dict held as a sequence of
\* entries with a field grid; 0 when the key is absent.
IndexOfGrid(entries, grid) ==
  IF \E i \in 1..Len(entries) : entries[i].grid = grid
  THEN CHOOSE i \in 1..Len(entries) : entries[i].grid = grid
  ELSE 0

\* A first mask that is computed and never stored.
ExpandValidDataMaskNoCreate(masks, grid, img, nodata_arg) ==
  LET valid_values == ValidValues(img, nodata_arg)
      k == IndexOfGrid(masks, grid)
  IN IF k = 0
     THEN masks
     ELSE [masks EXCEPT ![k].mask = MaskOr(masks[k].mask, valid_values)]

\* _expand_valid_data_mask, lines 258-263, on the mask store.
ExpandValidDataMask(masks, grid, img, nodata_arg) ==
  LET valid_values == ValidValues(img, nodata_arg)
      k == IndexOfGrid(masks, grid)
  IN IF k = 0
     THEN Append(masks, [grid |-> grid, mask |-> valid_values])
     ELSE [masks EXCEPT ![k].mask = MaskOr(masks[k].mask, valid_values)]

\* _MeasurementLocation(path, layer)
MeasurementLocation(name, path, layer) ==
  [name |-> name, path |-> path, layer |-> layer]

\* self._measurements_per_grid[grid][name] = location, on the defaultdict.
AddMeasurement(mpg, grid, location) ==
  LET k == IndexOfGrid(mpg, grid)
  IN IF k = 0
     THEN Append(mpg, [grid |-> grid, measurements |-> <<location>>])
     ELSE [mpg EXCEPT ![k].measurements = Append(mpg[k].measurements, location)]

\* The keys of one grid's measurements, in insertion order.
MeasurementKeys(measurements) ==
  [k \in 1..Len(measurements) |-> measurements[k].name]

\* iter_names, as a set.
AllNames(mpg) ==
  UNION {Range(MeasurementKeys(mpg[i].measurements)) : i \in 1..Len(mpg)}

\* A duplicate check that looks at the first bucket only.
IsDuplicateInFirstBucket(mpg, name) ==
  mpg # <<>> /\ name \in Range(MeasurementKeys(mpg[1].measurements))

\* record_image, lines 235-240: the name is held under some grid.
IsDuplicate(mpg, name) ==
  \E i \in 1..Len(mpg) : name \in Range(MeasurementKeys(mpg[i].measurements))

\* ------------------------------------------------------------------------
\* Grid naming: _as_named_grids.  A named-grids dict is a sequence of
\* entries [name, grid, measurements] in insertion order.
\* ------------------------------------------------------------------------

NamedKeys(named_grids) == {named_grids[i].name : i \in 1..Len(named_grids)}

NamedEntry(name, entry) ==
  [name |-> name, grid |-> entry.grid, measurements |-> entry.measurements]

\* The grids that hold size measurements, in the order of the registry.
GridsOfSize(mpg, size) ==
  LET HasSize(entry) == Len(entry.measurements) = size
  IN SelectSeq(mpg, HasSize)

\* A descending sort made by reversing an ascending one: among grids with as
\* many measurements the one inserted last comes first.
RECURSIVE GridsByFrequencyReversed(_, _)
GridsByFrequencyReversed(mpg, size) ==
  IF size = 0 THEN <<>>
  ELSE Reverse(GridsOfSize(mpg, size)) \o GridsByFrequencyReversed(mpg, size - 1)

\* Lines 271-273: sorted(items, key=len of measurements, reverse=True), a
\* stable sort, for grids of at most size measurements: the grids of the
\* greatest size come first, and among grids with as many measurements the
\* order of the registry is kept.
RECURSIVE GridsByFrequency(_, _)
GridsByFrequency(mpg, size) ==
  IF size = 0 THEN <<>>
  ELSE GridsOfSize(mpg, size) \o GridsByFrequency(mpg, size - 1)

\* The greatest number of measurements that a grid of the registry holds.
MaxSize(mpg) == MaxOf({Len(mpg[i].measurements) : i \in 1..Len(mpg)} \cup {0})

\* Lines 287-292: the name the first strategy gives one grid.
CommonGridName(measurements, all_measurement_names) ==
  IF Len(measurements) = 1
  THEN SomeName(JoinUnderscore(MeasurementKeys(measurements)))
  ELSE FindACommonName(MeasurementKeys(measurements), all_measurement_names)

\* The keys a naming loop holds when it reaches its i-th grid: those of
\* named_grids and the names given to the grids before the i-th.
KeysBefore(named_grids, grid_names, i) ==
  NamedKeys(named_grids) \cup {grid_names[j] : j \in 1..(i - 1)}

\* What a naming loop leaves when it breaks at the grids of the set breaks,
\* that is at the first of them: the grids before it are named.  finished is
\* FALSE when the loop was left by break.
NamedUntilBreak(grids, named_grids, grid_names, breaks) ==
  LET last == IF breaks = {} THEN Len(grids)
              ELSE (CHOOSE i \in breaks : \A j \in breaks : i <= j) - 1
  IN [named_grids |-> named_grids \o
                      [j \in 1..last |-> NamedEntry(grid_names[j], grids[j])],
      finished |-> breaks = {}]

\* Lines 286-304: the loop of the first strategy.  It breaks at a grid that
\* gets no name, or a name that is a key already.
NameByCommonName(grids, named_grids, all_measurement_names) ==
  LET grid_name == ListOf([i \in 1..Len(grids) |->
                      CommonGridName(grids[i].measurements, all_measurement_names)])
      grid_names == ListOf([i \in 1..Len(grids) |-> grid_name[i].name])
      breaks == {i \in 1..Len(grids) :
                   \/ ~ grid_name[i].found
                   \/ grid_names[i] \in KeysBefore(named_grids, grid_names, i)}
  IN NamedUntilBreak(grids, named_grids, grid_names, breaks)

\* A resolution loop that never looks for a clash: a name that is a key
\* already is given again.
NameByResolutionNoBreak(grids, named_grids) ==
  LET grid_names == ListOf([i \in 1..Len(grids) |-> ResolutionName(grids[i].grid)])
  IN NamedUntilBreak(grids, named_grids, grid_names, {})

\* Lines 308-320: the loop of the resolution strategy.  It breaks at a grid
\* whose name is a key already.
NameByResolution(grids, named_grids) ==
  LET grid_names == ListOf([i \in 1..Len(grids) |-> ResolutionName(grids[i].grid)])
      breaks == {i \in 1..Len(grids) :
                   grid_names[i] \in KeysBefore(named_grids, grid_names, i)}
  IN NamedUntilBreak(grids, named_grids, grid_names, breaks)

\* Letter names drawn from the lower-case letters only.
NameByLowercaseLetter(grids, default_grid) ==
  LET grid_names == SubSeq(Letters, 1, 26)
  IN IF Len(grids) > Len(grid_names)
     THEN [status |-> "NotImplementedError", value |-> <<>>]
     ELSE [status |-> "ok",
           value |-> <<NamedEntry(DefaultName, default_grid)>> \o
                     [i \in 1..Len(grids) |-> NamedEntry(<<grid_names[i]>>, grids[i])]]

\* Lines 324-335: letter names, or the error when the letters run out.
NameByLetter(grids, default_grid) ==
  LET grid_names == Letters
  IN IF Len(grids) > Len(grid_names)
     THEN [status |-> "NotImplementedError", value |-> <<>>]
     ELSE [status |-> "ok",
           value |-> <<NamedEntry(DefaultName, default_grid)>> \o
                     [i \in 1..Len(grids) |-> NamedEntry(<<grid_names[i]>>, grids[i])]]

\* _as_named_grids without the return of the first strategy's for-else: the
\* names of the first strategy are never returned.
AsNamedGridsNoEarlyReturn(mpg) ==
  IF mpg = <<>> THEN [status |-> "IndexError", value |-> <<>>]
  ELSE
    LET sorted == GridsByFrequency(mpg, MaxSize(mpg))
        default_grid == sorted[1]
        grids_by_frequency == Tail(sorted)
        only_default == <<NamedEntry(DefaultName, default_grid)>>
    IN IF grids_by_frequency = <<>> THEN [status |-> "ok", value |-> only_default]
       ELSE
         LET second == NameByResolution(grids_by_frequency, only_default)
         IN IF second.finished THEN [status |-> "ok", value |-> second.named_grids]
            ELSE NameByLetter(grids_by_frequency, default_grid)

\* _as_named_grids with a resolution strategy that goes on from the names
\* the first strategy left instead of from the default alone.
AsNamedGridsMixed(mpg) ==
  IF mpg = <<>> THEN [status |-> "IndexError", value |-> <<>>]
  ELSE
    LET sorted == GridsByFrequency(mpg, MaxSize(mpg))
        default_grid == sorted[1]
        grids_by_frequency == Tail(sorted)
        only_default == <<NamedEntry(DefaultName, default_grid)>>
    IN IF grids_by_frequency = <<>> THEN [status |-> "ok", value |-> only_default]
       ELSE
         LET first == NameByCommonName(grids_by_frequency, only_default, AllNames(mpg))
         IN IF first.finished THEN [status |-> "ok", value |-> first.named_grids]
            ELSE
              LET second == NameByResolution(grids_by_frequency, first.named_grids)
              IN IF second.finished THEN [status |-> "ok", value |-> second.named_grids]
                 ELSE NameByLetter(grids_by_frequency, default_grid)

\* _as_named_grids on a registry: [status, value].  pop(0) of an empty list
\* is an IndexError.
AsNamedGrids(mpg) ==
  IF mpg = <<>> THEN [status |-> "IndexError", value |-> <<>>]
  ELSE
    LET sorted == GridsByFrequency(mpg, MaxSize(mpg))
        default_grid == sorted[1]
        grids_by_frequency == Tail(sorted)
        only_default == <<NamedEntry(DefaultName, default_grid)>>
    IN IF grids_by_frequency = <<>> THEN [status |-> "ok", value |-> only_default]
       ELSE
         LET first == NameByCommonName(grids_by_frequency, only_default, AllNames(mpg))
         IN IF first.finished THEN [status |-> "ok", value |-> first.named_grids]
            ELSE
              LET second == NameByResolution(grids_by_frequency, only_default)
              IN IF second.finished THEN [status |-> "ok", value |-> second.named_grids]
                 ELSE NameByLetter(grids_by_frequency, default_grid)

\* ------------------------------------------------------------------------
\* as_geo_docs
\* ------------------------------------------------------------------------

\* measurement_name.replace(":", "_")
ReplaceColon(name) ==
  [i \in 1..Len(name) |-> IF name[i] = ":" THEN "_" ELSE name[i]]

\* d[key] = value on an insertion-ordered dict of entries [key, value]: a
\* held key keeps its place and takes the new value.
DictSet(d, key, value) ==
  IF \E i \in 1..Len(d) : d[i].key = key
  THEN [i \in 1..Len(d) |-> IF d[i].key = key THEN [value |-> value, key |-> key] ELSE d[i]]
  ELSE Append(d, [value |-> value, key |-> key])

\* Lines 364-372: the documents of one grid's measurements.
RECURSIVE AddMeasurementDocs(_, _, _, _)
AddMeasurementDocs(docs, measurements, k, grid_name) ==
  IF k > Len(measurements) THEN docs
  ELSE AddMeasurementDocs(
         DictSet(docs, ReplaceColon(measurements[k].name),
                 [grid |-> IF grid_name # DefaultName THEN SomeName(grid_name) ELSE NoName,
                  path |-> measurements[k].path,
                  layer |-> measurements[k].layer]),
         measurements, k + 1, grid_name)

\* What assigning the entries of the dict more, in their order, to the dict
\* d leaves: a held key keeps its place and takes the new value, a new key
\* is added at the end.
DictUpdate(d, more) ==
  LET Keys(e) == {e[i].key : i \in 1..Len(e)}
      ValueIn(e, key) == e[CHOOSE i \in 1..Len(e) : e[i].key = key].value
      IsNew(entry) == entry.key \notin Keys(d)
  IN [i \in 1..Len(d) |->
        IF d[i].key \in Keys(more)
        THEN [value |-> ValueIn(more, d[i].key), key |-> d[i].key]
        ELSE d[i]]
     \o SelectSeq(more, IsNew)

\* Lines 362-372: the measurement documents that the grids lo..hi of the
\* loop assign, one grid after the other.  Assigning the documents of the
\* grids lo..hi in order is assigning those of lo..mid and then those of
\* mid+1..hi.
RECURSIVE MeasurementDocsOf(_, _, _)
MeasurementDocsOf(named_grids, lo, hi) ==
  IF lo > hi THEN <<>>
  ELSE IF lo = hi
  THEN AddMeasurementDocs(<<>>, named_grids[lo].measurements, 1, named_grids[lo].name)
  ELSE LET mid == (lo + hi) \div 2
       IN DictUpdate(MeasurementDocsOf(named_grids, lo, mid),
                     MeasurementDocsOf(named_grids, mid + 1, hi))

\* Line 360: the grid documents of the loop.  The names of named grids are
\* the keys of a dict, so that each is assigned once.
GridDocsOf(named_grids) ==
  ListOf([i \in 1..Len(named_grids) |->
            [value |-> [shape |-> named_grids[i].grid.shape,
                        transform |-> named_grids[i].grid.affine],
             key |-> named_grids[i].name]])

\* Lines 345-350: the variable crs when the loop reaches its i-th grid (for
\* i past the last grid: when the loop ends).  It is the CRS of the first
\* grid before the i-th that has one.
CrsBefore(named_grids, i) ==
  LET with_crs == {j \in 1..(i - 1) : named_grids[j].grid.crs # NoCrs}
  IN IF with_crs = {} THEN NoCrs
     ELSE named_grids[CHOOSE j \in with_crs : \A h \in with_crs : j <= h].grid.crs

\* A loop that keeps the first CRS it meets and compares no other with it.
GeoDocsLoopUnchecked(named_grids) ==
  [status |-> "ok",
   value |-> [crs |-> CrsBefore(named_grids, Len(named_grids) + 1),
              measurements |-> MeasurementDocsOf(named_grids, 1, Len(named_grids)),
              grids |-> GridDocsOf(named_grids)]]

\* Lines 347-373: the loop over the named grids.  It raises at a grid whose
\* CRS is not the one the loop holds.
GeoDocsLoop(named_grids) ==
  IF \E i \in 1..Len(named_grids) :
       /\ CrsBefore(named_grids, i) # NoCrs
       /\ named_grids[i].grid.crs # NoCrs
       /\ named_grids[i].grid.crs # CrsBefore(named_grids, i)
  THEN [status |-> "ValueError", value |-> <<>>]
  ELSE [status |-> "ok",
        value |-> [crs |-> CrsBefore(named_grids, Len(named_grids) + 1),
                   measurements |-> MeasurementDocsOf(named_grids, 1, Len(named_grids)),
                   grids |-> GridDocsOf(named_grids)]]

\* Line 341: (None, None, None).  A registry that holds a grid yields at
\* least one grid document, so the empty documents stand for None.
NoDocs == [crs |-> NoCrs, measurements |-> <<>>, grids |-> <<>>]

\* Lines 340-342: as_geo_docs produces the named grids when the registry
\* holds a grid and _as_named_grids returns.
NamesGrids(mpg) == mpg # <<>> /\ AsNamedGrids(mpg).status = "ok"

\* as_geo_docs on a registry: [status, value].
AsGeoDocs(mpg) ==
  IF mpg = <<>>
  THEN [status |-> "ok", value |-> NoDocs]
  ELSE LET named == AsNamedGrids(mpg)
       IN IF named.status # "ok" THEN named
          ELSE GeoDocsLoop(named.value)

\* ------------------------------------------------------------------------
\* Valid-data geometry: consume_and_get_valid_data.
\* A mask is a row-major sequence of booleans over the grid's pixels.
\* ------------------------------------------------------------------------

PixelRow(grid, p) == (p - 1) \div grid.shape[2]
PixelCol(grid, p) == (p - 1) % grid.shape[2]

OnBorder(grid, p) ==
  \/ PixelRow(grid, p) \in {0, grid.shape[1] - 1}
  \/ PixelCol(grid, p) \in {0, grid.shape[2] - 1}

Adjacent(grid, p, q) ==
  \/ PixelRow(grid, p) = PixelRow(grid, q) /\ Abs(PixelCol(grid, p) - PixelCol(grid, q)) = 1
  \/ PixelCol(grid, p) = PixelCol(grid, q) /\ Abs(PixelRow(grid, p) - PixelRow(grid, q)) = 1

\* The background pixels connected to the outside of the image.
RECURSIVE Outside(_, _, _)
Outside(grid, mask, reached) ==
  LET more == {q \in 1..Len(mask) :
                 /\ ~ mask[q]
                 /\ q \notin reached
                 /\ \E p \in reached : Adjacent(grid, p, q)}
  IN IF more = {} THEN reached ELSE Outside(grid, mask, reached \cup more)

\* scipy.ndimage.binary_fill_holes: background not connected to the outside
\* of the image becomes foreground.
BinaryFillHoles(grid, mask) ==
  LET outside == Outside(grid, mask, {p \in 1..Len(mask) : ~ mask[p] /\ OnBorder(grid, p)})
  IN [p \in 1..Len(mask) |-> mask[p] \/ p \notin outside]

\* skimage.morphology.convex_hull_image of a one-row image: every pixel
\* between the first and the last foreground pixel.
ConvexHullImage(grid, mask) ==
  [p \in 1..Len(mask) |->
     /\ \E q \in 1..p : mask[q]
     /\ \E q \in p..Len(mask) : mask[q]]

\* Lines 391-409: the geometry of one popped grid.  A geometry is held by
\* what it is computed from: the grid, and for a vectorized mask
\* (_grid_to_poly) the mask handed to it.  scikit-image, which convex_hull
\* requires, is taken to be installed.  A method that is none of the four
\* raises NotImplementedError.
GridGeometry(valid_data_method, grid, mask) ==
  CASE valid_data_method = "bounds" ->
         [status |-> "ok", geom |-> [grid |-> grid, mask |-> <<>>, kind |-> "box"]]
    [] valid_data_method = "filled" ->
         [status |-> "ok",
          geom |-> [grid |-> grid, mask |-> BinaryFillHoles(grid, mask), kind |-> "poly"]]
    [] valid_data_method = "convex_hull" ->
         [status |-> "ok",
          geom |-> [grid |-> grid, mask |-> ConvexHullImage(grid, mask), kind |-> "poly"]]
    [] valid_data_method = "thorough" ->
         [status |-> "ok", geom |-> [grid |-> grid, mask |-> mask, kind |-> "poly"]]
    [] OTHER -> [status |-> "NotImplementedError", geom |-> <<>>]

\* The extent of a geometry: the least rectangle with sides along the axes
\* that holds it, or nothing for an empty geometry.  A geometry lies within
\* a rectangle exactly when its extent does.
Extent(minx, miny, maxx, maxy) ==
  [minx |-> minx, miny |-> miny, maxx |-> maxx, maxy |-> maxy, empty |-> FALSE]

EmptyExtent == [minx |-> 0, miny |-> 0, maxx |-> 0, maxy |-> 0, empty |-> TRUE]

\* _grid_to_poly, lines 433-443: the shapes of the pixels of value 1, their
\* union and its convex hull, in pixel space: pixel (row, col) is the square
\* from (col, row) to (col + 1, row + 1).
HullExtent(grid, mask) ==
  LET pixels == {p \in 1..Len(mask) : mask[p]}
      rows == {PixelRow(grid, p) : p \in pixels}
      cols == {PixelCol(grid, p) : p \in pixels}
  IN IF pixels = {} THEN EmptyExtent
     ELSE Extent(CHOOSE c \in cols : \A d \in cols : c <= d,
                 CHOOSE r \in rows : \A q \in rows : r <= q,
                 (CHOOSE c \in cols : \A d \in cols : c >= d) + 1,
                 (CHOOSE r \in rows : \A q \in rows : r >= q) + 1)

\* geom.buffer(distance, square caps, bevel joins), line 445, followed by
\* geom.simplify(1), line 447: the buffer reaches distance beyond the
\* geometry on every side; the simplification only drops vertices, so the
\* extent kept here is the widest the simplified geometry can have.
BufferExtent(extent, distance) ==
  IF extent.empty THEN extent
  ELSE Extent(extent.minx - distance, extent.miny - distance,
              extent.maxx + distance, extent.maxy + distance)

\* geom.intersection(shapely.geometry.box(0, 0, shape_x, shape_y)), line 449.
ClipExtent(extent, shape_x, shape_y) ==
  IF extent.empty \/ extent.minx > shape_x \/ extent.miny > shape_y
       \/ extent.maxx < 0 \/ extent.maxy < 0
  THEN EmptyExtent
  ELSE Extent(IF extent.minx < 0 THEN 0 ELSE extent.minx,
              IF extent.miny < 0 THEN 0 ELSE extent.miny,
              IF extent.maxx > shape_x THEN shape_x ELSE extent.maxx,
              IF extent.maxy > shape_y THEN shape_y ELSE extent.maxy)

\* shapely.affinity.affine_transform, lines 451-461, with the grid's affine
\* (b = d = 0 for the grids here): x -> a * x + xoff, y -> e * y + yoff.  A
\* negative scale swaps the two ends of the extent.
TransformExtent(extent, affine) ==
  IF extent.empty THEN extent
  ELSE LET x1 == affine.a * extent.minx + affine.xoff
           x2 == affine.a * extent.maxx + affine.xoff
           y1 == affine.e * extent.miny + affine.yoff
           y2 == affine.e * extent.maxy + affine.yoff
       IN Extent(IF x1 < x2 THEN x1 ELSE x2, IF y1 < y2 THEN y1 ELSE y2,
                 IF x1 < x2 THEN x2 ELSE x1, IF y1 < y2 THEN y2 ELSE y1)

\* A polygon clipped to the image before it is buffered.
GridToPolyClipFirst(grid, mask) ==
  TransformExtent(
    BufferExtent(ClipExtent(HullExtent(grid, mask), grid.shape[2], grid.shape[1]), 1),
    grid.affine)

\* _grid_to_poly, lines 432-462: hull, buffer by one pixel, simplify, clip to
\* the image, transform to CRS space.  The mask has the grid's shape.
GridToPoly(grid, mask) ==
  TransformExtent(
    ClipExtent(BufferExtent(HullExtent(grid, mask), 1), grid.shape[2], grid.shape[1]),
    grid.affine)

\* grid.boundingbox, line 392: the image's rectangle in CRS space.
BoundingBox(grid) ==
  TransformExtent(Extent(0, 0, grid.shape[2], grid.shape[1]), grid.affine)

\* The extent of a geometry of consume_and_get_valid_data, lines 391-406.
GeomExtent(geom) ==
  IF geom.kind = "box" THEN BoundingBox(geom.grid)
  ELSE GridToPoly(geom.grid, geom.mask)

\* shapely.ops.unary_union(geoms): the union, held as the set of its parts.
UnaryUnion(geoms) == Range(geoms)

\* ------------------------------------------------------------------------
\* Thumbnails: numpy arrays and raster files.
\* An array is [shape, px]: its dimensions and its values in row-major
\* order; a typed array has its dtype beside them.  The files and arrays are
\* on a grid already in EPSG:4326 that the default transform to EPSG:4326
\* leaves as it is, so the reprojection of the quicklook keeps the values
\* under every resampling; a JPEG is held by the bands written to it, before
\* compression.
\* ------------------------------------------------------------------------

Array(shape, px) == [shape |-> shape, px |-> px]

EmptyArray == Array(<<0>>, <<>>)

\* The number of values of an array of a shape.
RECURSIVE Size(_)
Size(shape) == IF shape = <<>> THEN 1 ELSE shape[1] * Size(Tail(shape))

\* a[i], i counted from 0: of the type of a.
Item(a, i) ==
  LET n == Size(Tail(a.shape))
  IN [a EXCEPT !.shape = Tail(a.shape), !.px = SubSeq(a.px, i * n + 1, (i + 1) * n)]

\* The arrays an iteration over an array yields.
Rows(a) == [i \in 1..a.shape[1] |-> Item(a, i - 1)]

\* numpy.ones(shape, dtype="bool")
Ones(shape) == Array(shape, [p \in 1..Size(shape) |-> TRUE])

\* A raster file: the dataset's meta and its data of shape (count, height, width).
RasterMeta(count, height, width, nodata, dtype) ==
  [nodata |-> nodata, dtype |-> dtype, count |-> count, height |-> height, width |-> width]

RasterFile(meta, data) == [meta |-> meta, data |-> data]

NoRaster == RasterFile(RasterMeta(0, 0, 0, NoneArg, "uint8"), EmptyArray)

\* A written JPEG, or the bytes of one: three bands of uint8, of which the
\* bands written so far are held.
Thumbnail(bands) == [count |-> 3, bands |-> bands, exists |-> TRUE]

NoFile == [count |-> 0, bands |-> <<>>, exists |-> FALSE]

\* One access to a file or to the caller's array.
Event(op, path) == [path |-> path, op |-> op]

\* What a function hands back: the exception raised or "ok", the
\* exception's message, the accesses made, and the value.
Raised(status, message, io) == [status |-> status, message |-> message, io |-> io]

\* Python's truth of an optional integer: None and 0 are false.
Truthy(bit) == bit # NoneArg /\ bit[1] # 0

\* out_data of _filter_singleband_data is one array or a list of three.
NdArray(a) == [type |-> "ndarray", items |-> <<a>>]
List(arrays) == [type |-> "list", items |-> arrays]

\* out_data[i], i counted from 0.
Index(out_data, i) ==
  IF out_data.type = "list" THEN out_data.items[i + 1] ELSE Item(out_data.items[1], i)

\* The arrays an iteration over rgb yields, and len(rgb).
AsList(rgb) == IF rgb.type = "list" THEN rgb.items ELSE Rows(rgb.items[1])

\* A lookup table is an insertion-ordered dict held as a sequence of entries
\* [key, value] with the value (r, g, b).  Lines 726-728: the value the table
\* gives channel index (from 1) of a pixel, 0 for a value that is no key.
LookupRgb(table, value, index) ==
  IF \E k \in 1..Len(table) : table[k].key = value
  THEN table[CHOOSE k \in 1..Len(table) : table[k].key = value].value[index]
  ELSE 0

\* _filter_singleband_data, lines 706-730.  bit and lookup_table are optional:
\* <<>> is None.  With both given the table's result replaces the bit's.
\* numpy.full_like(data, 0) and numpy.copy(data) have the type of data.
FilterSinglebandData(data, bit, lookup_table) ==
  IF lookup_table # NoneArg
  THEN [status |-> "ok",
        out_data |-> List([index \in 1..3 |->
                       [data EXCEPT !.px =
                          [p \in 1..Len(data.px) |->
                             LookupRgb(lookup_table[1], data.px[p], index)]]]),
        stretch |-> <<0, 255>>]
  ELSE IF bit # NoneArg
  THEN [status |-> "ok",
        out_data |-> NdArray([data EXCEPT !.px =
                                [p \in 1..Len(data.px) |->
                                   IF data.px[p] # bit[1] THEN 0 ELSE data.px[p]]]),
        stretch |-> <<0, bit[1]>>]
  ELSE [status |-> "UnboundLocalError", out_data |-> List(<<>>), stretch |-> <<0, 0>>]

\* generate_tiles, line 139: the default ytile is min(100, lines).
DefaultYTile == 100

\* numpy.arange(0, stop, step), lines 141-142, for a step that is not
\* negative: 0, step, 2 * step, ... below stop.  A step of 0 raises.
Arange(stop, step) ==
  IF step = 0 THEN [status |-> "ZeroDivisionError", values |-> <<>>]
  ELSE [status |-> "ok",
        values |-> [i \in 1..(IF stop <= 0 THEN 0 ELSE (stop + step - 1) \div step) |->
                      (i - 1) * step]]

\* The end of a tile that is never cut at the edge of the array.
TileEndUnclamped(step, tile, size) == step + tile

\* create_tiles, lines 124-127 and 129-132: the end of the tile that starts
\* at step.
TileEnd(step, tile, size) == IF step + tile < size THEN step + tile ELSE size

\* create_tiles, lines 119-133: for every ystep, for every xstep, one tile
\* ((ystep, yend), (xstep, xend)).
CreateTiles(samples, lines, xstart, ystart, xtile, ytile) ==
  [k \in 1..Len(ystart) * Len(xstart) |->
     LET ystep == ystart[((k - 1) \div Len(xstart)) + 1]
         xstep == xstart[((k - 1) % Len(xstart)) + 1]
     IN <<<<ystep, TileEnd(ystep, ytile, lines)>>,
          <<xstep, TileEnd(xstep, xtile, samples)>>>>]

\* generate_tiles, lines 82-146.  xtile and ytile are optional (<<>> is
\* None).  The starts are computed at the call, so that a tile size of 0
\* raises there; the tiles are given as the list the generator yields.
GenerateTiles(samples, lines, xtile_arg, ytile_arg) ==
  LET xtile == IF xtile_arg = NoneArg \/ xtile_arg[1] < 0 THEN samples ELSE xtile_arg[1]
      ytile == IF ytile_arg = NoneArg \/ ytile_arg[1] < 0
               THEN (IF DefaultYTile < lines THEN DefaultYTile ELSE lines)
               ELSE ytile_arg[1]
      xstart == Arange(samples, xtile)
      ystart == Arange(lines, ytile)
  IN IF xstart.status # "ok" THEN [status |-> xstart.status, tiles |-> <<>>]
     ELSE IF ystart.status # "ok" THEN [status |-> ystart.status, tiles |-> <<>>]
     ELSE [status |-> "ok",
           tiles |-> ListOf(CreateTiles(samples, lines, ListOf(xstart.values),
                                        ListOf(ystart.values), xtile, ytile))]

\* ------------------------------------------------------------------------
\* The float64 arithmetic of rescale_intensity, computed with integers.
\* ------------------------------------------------------------------------

\* sys.maxsize, which is 2^63 - 1 in the code: here the greatest integer
\* of the checker, above every pixel value as that one is.
SysMaxsize == 2147483647

\* numpy.around of num / den for num >= 0: a half goes to the even neighbour.
Around(num, den) ==
  LET floor == num \div den
      twice == 2 * (num % den)
  IN IF twice < den \/ (twice = den /\ floor % 2 = 0) THEN floor ELSE floor + 1

\* 2^n, and 2^n modulo m by repeated squaring.
RECURSIVE Pow2(_)
Pow2(n) ==
  IF n = 0 THEN 1
  ELSE LET half == Pow2(n \div 2)
       IN half * half * (IF n % 2 = 1 THEN 2 ELSE 1)

RECURSIVE Pow2Mod(_, _)
Pow2Mod(n, m) ==
  IF n = 0 THEN 1 % m
  ELSE LET half == Pow2Mod(n \div 2, m)
       IN (half * half * (IF n % 2 = 1 THEN 2 ELSE 1)) % m

\* The binade of a positive num / den: the least s with num * 2^s >= den
\* (for num <= den), so that num / den lies in [2^-s, 2^(1 - s)).
RECURSIVE BinadeBelowOne(_, _, _)
BinadeBelowOne(num, den, s) ==
  IF num * Pow2(s) >= den THEN s ELSE BinadeBelowOne(num, den, s + 1)

\* floor(log2(k)) for k >= 1.
RECURSIVE Log2(_)
Log2(k) == IF k < 2 THEN 0 ELSE 1 + Log2(k \div 2)

\* k is a power of two.
RECURSIVE IsPow2(_)
IsPow2(k) == k >= 1 /\ (k = 1 \/ (k % 2 = 0 /\ IsPow2(k \div 2)))

RECURSIVE Gcd(_, _)
Gcd(a, b) == IF b = 0 THEN a ELSE Gcd(b, a % b)

Sign(n) == IF n < 0 THEN -1 ELSE IF n = 0 THEN 0 ELSE 1

\* An integer beyond the checker's 32 bits: <<hi, lo>> stands for
\* hi * 65536 + lo, with lo in 0..65535.
Wide(n) == <<n \div 65536, n % 65536>>

WideAdd(x, y) ==
  <<x[1] + y[1] + ((x[2] + y[2]) \div 65536), (x[2] + y[2]) % 65536>>

WideNeg(x) == IF x[2] = 0 THEN <<-x[1], 0>> ELSE <<-x[1] - 1, 65536 - x[2]>>

WideSign(x) == IF x[1] < 0 THEN -1 ELSE IF x = <<0, 0>> THEN 0 ELSE 1

WideAbs(x) == IF x[1] < 0 THEN WideNeg(x) ELSE x

\* a * b for a and b in 0..2^18.
WideMul(a, b) ==
  LET high == (a \div 256) * b
      low == (high % 256) * 256 + (a % 256) * b
  IN <<(high \div 256) + (low \div 65536), low % 65536>>

\* x divided by b, for x >= 0 and b in 1..2^18: the quotient and the
\* remainder.
WideDivMod(x, b) ==
  LET upper == (x[1] % b) * 256 + (x[2] \div 256)
      lower == (upper % b) * 256 + (x[2] % 256)
  IN [quotient |-> <<x[1] \div b, (upper \div b) * 256 + (lower \div b)>>,
      remainder |-> lower % b]

\* 2^n modulo m by repeated squaring, and r * 2^n modulo m, for m in
\* 1..2^18, whose square is beyond the checker's integers.
RECURSIVE WidePow2Mod(_, _)
WidePow2Mod(n, m) ==
  IF n = 0 THEN 1 % m
  ELSE LET half == WidePow2Mod(n \div 2, m)
           square == WideDivMod(WideMul(half, half), m).remainder
       IN IF half = 0 THEN 0
          ELSE IF n % 2 = 1 THEN (2 * square) % m ELSE square

DoubleMod(r, n, m) == WideDivMod(WideMul(r % m, WidePow2Mod(n, m)), m).remainder

\* floor(log2(x)) for x > 0.
WideLog2(x) == IF x[1] > 0 THEN 16 + Log2(x[1]) ELSE Log2(x[2])

WideIsPow2(x) == (x[1] > 0 /\ x[2] = 0 /\ IsPow2(x[1])) \/ (x[1] = 0 /\ IsPow2(x[2]))

\* x1 * y1 < x2 * y2, for factors in 0..2^20.
WideProductLess(x1, y1, x2, y2) ==
  LET Product(x, y) == <<x * (y \div 1024) + ((x * (y % 1024)) \div 1024),
                         (x * (y % 1024)) % 1024>>
      Less(p1, p2) == p1[1] < p2[1] \/ (p1[1] = p2[1] /\ p1[2] < p2[2])
  IN Less(Product(x1, y1), Product(x2, y2))

\* A float64 value, as far as the cast to an integer type reads it: NaN, or
\* the integer at or below it (whole, a wide integer), the fraction num / den
\* it lies above that integer by, and, for a value the exact arithmetic puts
\* on the integer (num = 0), the side of the integer the float64 lies on
\* after its roundings: -1 a hair below, 1 a hair above, 0 on it.
Float(nan, whole, num, den, side) ==
  [num |-> num, den |-> den, nan |-> nan, whole |-> whole, side |-> side]

NanFloat == Float(TRUE, <<0, 0>>, 0, 1, 0)

\* The float64 of an integer.
Exact(n) == Float(FALSE, Wide(n), 0, 1, 0)

\* image += omin, line 992, on the float64 sign * (k + j * 2^(e - 53)), for
\* a wide integer k > 0 with floor(log2(k)) = e and j in -2..2 units of half
\* the last bit of k: the sum is the integer n = sign * k + omin, or the
\* float64 next to it when the rounding of the sum keeps what the product
\* was beside k by.  Of j * 2^(e - 53) against the last bit 2^(en - 52) of n,
\* en = floor(log2(|n|)), more than a half is kept, and more than a quarter
\* toward zero from a power of two, below which the float64 lie twice as
\* close.
Beside(k, j, e, sign, omin) ==
  LET to == IF j * sign > 0 THEN 1 ELSE -1
      \* the sum n, beside by what is kept
      Sum(n) ==
        IF j = 0 THEN Float(FALSE, n, 0, 1, 0)
        ELSE IF n = <<0, 0>> THEN Float(FALSE, n, 0, 1, to)
        ELSE LET en == WideLog2(WideAbs(n))
                 away == (to > 0) = (WideSign(n) > 0)
                 closer == ~ away /\ WideIsPow2(WideAbs(n))
                 least == (IF Abs(j) = 1 THEN 1 ELSE 0) - (IF closer THEN 1 ELSE 0)
             IN Float(FALSE, n, 0, 1, IF e - en >= least THEN to ELSE 0)
  IN Sum(WideAdd(IF sign > 0 THEN k ELSE WideNeg(k), Wide(omin)))

\* Lines 990-992 on a clipped value less imin, a: a / float(d) * (omax -
\* omin) + omin with each of the three operations rounded to float64, for
\* integers a, d # 0, span = omax - omin and omin below 2^18 in magnitude.
\* When the exact a * span / d is no integer the float64 result lies strictly
\* between the same two integers as the exact one.  When it is an integer
\* and a / d is a float64 (d divides a, or the reduced d is a power of two)
\* every operation is exact.  Otherwise a / d is rounded: its error, in
\* units of its last bit, is the remainder r1 of a * 2^s by the reduced d
\* over that d (s = 52 - floor(log2(a / d))), downward, or upward when more
\* than half; times span, that error is weighed against the last bit of the
\* product k, and the product is k when it is within half of that bit (a
\* quarter below a power of two), else the float64 next to k on the error's
\* side.
Scaled(a, d, span, omin) ==
  LET sign == Sign(a) * Sign(d) * Sign(span)
      \* The product k of a rounded quotient: twice the error of the product
      \* in units of half the last bit of k is twice_eta * |span| / (d1 * unit).
      Weighed(k, d1, up, e, twice_eta, unit) ==
        LET Above(half_bits) == WideProductLess(d1, half_bits * unit, twice_eta, Abs(span))
            AtLeast(half_bits) == ~ WideProductLess(twice_eta, Abs(span), d1, half_bits * unit)
        IN Beside(k,
                  IF up THEN (IF Above(2) THEN 2 ELSE 0)
                  ELSE IF WideIsPow2(k)
                  THEN (IF AtLeast(3) THEN -2 ELSE IF Above(1) THEN -1 ELSE 0)
                  ELSE (IF Above(2) THEN -2 ELSE 0),
                  e, sign, omin)
      \* The quotient a1 / d1 of the binade f, rounded with the remainder r1.
      Rounded(k, d1, c, r1) ==
        Weighed(k, d1, 2 * r1 > d1, WideLog2(k),
                (IF c = -1 THEN 4 ELSE 2) * (IF 2 * r1 > d1 THEN d1 - r1 ELSE r1),
                IF c = -1 THEN 1 ELSE Pow2(c))
      InBinade(k, a1, d1, f) ==
        Rounded(k, d1, WideLog2(k) - f - 1, DoubleMod(a1 % d1, 52 - f, d1))
      \* The exact product is k + r / |d|, and a / d is a1 / d1 reduced.
      Product(k, r, a1, d1) ==
        IF r # 0
        THEN IF sign > 0 THEN Float(FALSE, WideAdd(k, Wide(omin)), r, Abs(d), 0)
             ELSE Float(FALSE, WideAdd(WideNeg(WideAdd(k, Wide(1))), Wide(omin)),
                        Abs(d) - r, Abs(d), 0)
        ELSE IF IsPow2(d1)
        THEN Float(FALSE, WideAdd(IF sign > 0 THEN k ELSE WideNeg(k), Wide(omin)), 0, 1, 0)
        ELSE InBinade(k, a1, d1,
                      IF a1 >= d1 THEN Log2(a1 \div d1) ELSE -BinadeBelowOne(a1, d1, 0))
      Reduced(divided, g) ==
        Product(divided.quotient, divided.remainder, Abs(a) \div g, Abs(d) \div g)
  IN IF a = 0 \/ span = 0 THEN Exact(omin)
     ELSE Reduced(WideDivMod(WideMul(Abs(a), Abs(span)), Abs(d)), Gcd(Abs(a), Abs(d)))

\* Lines 988-992 with the range (-sys.maxsize - 1, sys.maxsize), the one
\* line 936 starts from, on a finite pixel v: float64 has not the digits for
\* v + 2^63, which is 2^63 + j * 2^10 with j the rounding of v / 2^10 to an
\* even integer for v >= 0 and of v / 2^10 to an integer for v < 0 (the
\* float64 lie twice as close below 2^63); float(2^64 - 1) is 2^64, so the
\* quotient is 1 / 2 + j * 2^-54, its product with span = omax - omin is
\* span / 2 beside by the rounding of j * |span| to the last bit of span / 2,
\* and the sum with omin is (span + 2 * omin) / 2, beside by what the
\* rounding of the sum keeps of that.
SeedScaled(v, span, omin) ==
  LET size == Abs(span)
      twice == span + 2 * omin
      whole == Wide(twice \div 2)
      num == twice % 2
      \* What the rounding of the sum keeps of mnum / mden.
      Kept(to, away, mnum, mden) ==
        Float(FALSE, whole, num, 2,
              IF (IF away \/ ~ IsPow2(Abs(twice))
                  THEN Around(mnum, 2 * mden)
                  ELSE Around(mnum, mden)) = 0
              THEN 0 ELSE to)
      Summed(beside, to, e, ec) ==
        IF beside = 0 THEN Float(FALSE, whole, num, 2, 0)
        ELSE IF twice = 0 THEN Float(FALSE, whole, num, 2, to)
        ELSE Kept(to, (to > 0) = (twice > 0),
                  Abs(beside) * Pow2(IF e > ec THEN e - ec ELSE 0),
                  Pow2(IF ec > e THEN ec - e ELSE 0))
      Multiplied(beside, e) ==
        Summed(beside, IF Sign(span) * beside > 0 THEN 1 ELSE -1, e,
               Log2(Abs(twice)) - 1)
      Quotient(j, e) ==
        Multiplied(IF j >= 0 \/ ~ IsPow2(size)
                   THEN 2 * Around(Abs(j) * size, Pow2(e + 2)) * (IF j >= 0 THEN 1 ELSE -1)
                   ELSE j,
                   e)
  IN IF span = 0 THEN Exact(omin)
     ELSE Quotient(IF v >= 0 THEN 2 * Around(v, 2048) ELSE -Around(-v, 1024),
                   Log2(size) - 1)

\* numpy.iinfo(dtype).min and .max, line 982.
IInfo(dtype) ==
  CASE dtype = "uint8" -> <<0, 255>>
    [] dtype = "int8" -> <<-128, 127>>
    [] dtype = "uint16" -> <<0, 65535>>
    [] dtype = "int16" -> <<-32768, 32767>>

\* The integer n as an integer type of 8 or 16 bits holds it: its low bits.
Wrapped(n, dtype) ==
  LET least == IInfo(dtype)[1]
  IN ((n - least) % (IInfo(dtype)[2] - least + 1)) + least

\* A range is (imin, imax) when its ends are Python integers, as a static
\* stretch, the (0, 255) and (0, bit) of the single-band thumbnails and
\* the range line 936 starts from are, and (imin, imax, type of imin, type
\* of imax) when they are numpy scalars, as the percentiles of lines 944-956
\* are: scalars of the type of the array they were taken from.
RangeType(in_range, end) == IF Len(in_range) = 4 THEN in_range[end + 2] ELSE "int"

\* The type numpy gives the difference of two scalars.  A Python integer
\* beside a numpy scalar takes the scalar's type; the unsigned 16 bit type
\* beside a signed one goes to int32, which holds every difference here.
ResultType(t1, t2) ==
  IF t1 = t2 \/ t2 = "int" THEN t1
  ELSE IF t1 = "int" THEN t2
  ELSE IF "float64" \in {t1, t2} THEN "float64"
  ELSE CASE {t1, t2} = {"uint8", "int8"} -> "int16"
         [] {t1, t2} = {"uint8", "int16"} -> "int16"
         [] {t1, t2} = {"int8", "int16"} -> "int16"
         [] {t1, t2} = {"uint8", "uint16"} -> "uint16"
         [] OTHER -> "int32"

\* imax - imin, line 990, before float() is applied: exact for Python
\* integers and for floats, and for numpy scalars of an integer type of 8 or
\* 16 bits computed in that type, where it wraps: (-20000, 20000) of int16
\* has the difference -25536, (5, 4) of uint8 has 255 and the whole of a
\* signed type, (min, max), has -1.
Difference(in_range) ==
  LET dtype == ResultType(RangeType(in_range, 1), RangeType(in_range, 2))
  IN IF dtype \in {"int", "float64", "int32"} THEN in_range[2] - in_range[1]
     ELSE Wrapped(in_range[2] - in_range[1], dtype)

\* rescale_intensity, lines 988-992, with the offset left out.
RescaledNoOffset(v, in_range, omin, omax) ==
  LET imin == in_range[1]
      imax == in_range[2]
      raised == IF v = Inf \/ v > imin THEN v ELSE imin
      clipped == IF raised = Inf \/ raised > imax THEN imax ELSE raised
      Divided(difference) ==
        IF difference = 0 THEN NanFloat
        ELSE Scaled(clipped - imin, difference, omax - omin, 0)
  IN IF IsNan(v) \/ IsNan(imin) \/ IsNan(imax) \/ imin = Inf THEN NanFloat
     ELSE IF imax = Inf THEN (IF v = Inf THEN NanFloat ELSE Exact(0))
     ELSE IF Len(in_range) = 2 /\ imin = -SysMaxsize - 1 /\ imax = SysMaxsize
     THEN (IF v = Inf THEN Exact(omax - omin) ELSE SeedScaled(v, omax - omin, 0))
     ELSE Divided(Difference(in_range))

\* rescale_intensity, lines 988-992, on one value: clip to the input range,
\* subtract imin, divide by float(imax - imin), multiply by omax - omin, add
\* omin, in float64.  numpy.clip is minimum(maximum(v, imin), imax): with
\* imin > imax it is imax for every v.  With imax = imin the clipped value
\* less imin is 0 and the division is 0 / 0.  A NaN pixel stays NaN through
\* the clip and the arithmetic, and so does every pixel when an end of the
\* range is NaN.  An infinite imin gives inf - inf or -inf / -inf, NaN
\* again; an infinite imax gives a finite value over infinity, 0, and hence
\* omin, or inf / inf for an infinite pixel.
Rescaled(v, in_range, omin, omax) ==
  LET imin == in_range[1]
      imax == in_range[2]
      raised == IF v = Inf \/ v > imin THEN v ELSE imin
      clipped == IF raised = Inf \/ raised > imax THEN imax ELSE raised
      Divided(difference) ==
        IF difference = 0 THEN NanFloat
        ELSE Scaled(clipped - imin, difference, omax - omin, omin)
  IN IF IsNan(v) \/ IsNan(imin) \/ IsNan(imax) \/ imin = Inf THEN NanFloat
     ELSE IF imax = Inf THEN (IF v = Inf THEN NanFloat ELSE Exact(omin))
     ELSE IF Len(in_range) = 2 /\ imin = -SysMaxsize - 1 /\ imax = SysMaxsize
     THEN (IF v = Inf THEN Exact(omax) ELSE SeedScaled(v, omax - omin, omin))
     ELSE Divided(Difference(in_range))

\* The integer part of a float64 value that is not NaN: the wide integer
\* next to it toward zero.
Truncated(x) ==
  IF x.num > 0 THEN (IF x.whole[1] >= 0 THEN x.whole ELSE WideAdd(x.whole, Wide(1)))
  ELSE IF x.side = 0 \/ x.whole = <<0, 0>> THEN x.whole
  ELSE IF WideSign(x.whole) > 0
  THEN (IF x.side < 0 THEN WideAdd(x.whole, Wide(-1)) ELSE x.whole)
  ELSE (IF x.side > 0 THEN WideAdd(x.whole, Wide(1)) ELSE x.whole)

\* A wide integer is a value of the type.
WithinType(n, dtype) ==
  \/ n[1] = 0 /\ n[2] <= IInfo(dtype)[2]
  \/ n[1] = -1 /\ n[2] - 65536 >= IInfo(dtype)[1]

\* What a build makes of the two casts of line 993 that C leaves undefined:
\* of_nan is the integer it stores for NaN, beyond what it stores for a
\* value whose integer part is no value of the type.  "wrap" keeps the low
\* bits of the integer part (the conversion to a 64 bit integer, narrowed),
\* "indefinite" does so for an integer part of 32 bits and stores 0 for a
\* greater one (the conversion to a 32 bit integer, narrowed), "saturate"
\* stores the end of the type nearest to the value.
Build(of_nan, beyond) == [of_nan |-> of_nan, beyond |-> beyond]

DefaultBuild == Build(0, "wrap")

\* image.astype(out_dtype), line 993, on one float64 value: truncation
\* toward zero for a value within the type, and the build's choice for the
\* others.
Cast(x, dtype, build) ==
  LET \* the integer part n, stored
      Stored(n) ==
        IF WithinType(n, dtype) THEN n[1] * 65536 + n[2]
        ELSE IF build.beyond = "saturate"
        THEN (IF n[1] < 0 THEN IInfo(dtype)[1] ELSE IInfo(dtype)[2])
        ELSE IF build.beyond = "indefinite" /\ (n[1] < -32768 \/ n[1] > 32767)
        THEN 0
        ELSE Wrapped(n[2], dtype)
  IN IF x.nan THEN build.of_nan ELSE Stored(Truncated(x))

\* The builds that differ on the cast of the values to dtype: any integer of
\* the type may stand for NaN, of which the least, 0 (the usual one) and the
\* greatest are kept, when one of the values is NaN (the pixel was NaN, the
\* two ends of in_range coincide, or an end of in_range is NaN or infinite),
\* and each rule for a value beyond the type when there is one.
Builds(dtype, values) ==
  LET \* the integer parts that are no value of the type
      Rules(beyond) ==
        IF beyond = {} THEN {"wrap"}
        ELSE IF \E n \in beyond : n[1] < -32768 \/ n[1] > 32767
        THEN {"wrap", "indefinite", "saturate"}
        ELSE {"wrap", "saturate"}
  IN {Build(of_nan, rule) :
        of_nan \in IF \E x \in values : x.nan
                   THEN {IInfo(dtype)[1], 0, IInfo(dtype)[2]} ELSE {0},
        rule \in Rules({n \in {Truncated(x) : x \in {y \in values : ~ y.nan}} :
                          ~ WithinType(n, dtype)})}

\* rescale_intensity, lines 986-993, on one value that is not null.
RescaleValue(v, in_range, omin, omax, out_dtype, build) ==
  Cast(Rescaled(v, in_range, omin, omax), out_dtype, build)

\* The arrays alive during a call are a sequence of typed arrays; a name of
\* the program refers to one of them by its position, so that two names can
\* refer to one array and an operation in place is seen through both.
Typed(dtype, array) == [shape |-> array.shape, dtype |-> dtype, px |-> array.px]

Untyped(object) == Array(object.shape, object.px)

\* A name bound to an array among those alive.
Bound(heap, ref) == [heap |-> heap, ref |-> ref]

\* image == image_nodata, line 979: a new array of booleans.
EqualTo(heap, ref, value) ==
  Bound(Append(heap, Typed("bool", Array(heap[ref].shape,
                                         ListOf([p \in 1..Len(heap[ref].px) |->
                                                   ~ NotEqual(heap[ref].px[p], value)])))),
        Len(heap) + 1)

\* A conversion in place: the array it was given, under the new type.
AsTypeNoCopy(heap, ref, dtype) == Bound([heap EXCEPT ![ref].dtype = dtype], ref)

\* image.astype(dtype), lines 986 and 993: always a new array (copy=True is
\* the default), whatever the type of the old one.  The values are converted
\* by the caller of this operator.
AsType(heap, ref, dtype) ==
  Bound(Append(heap, [heap[ref] EXCEPT !.dtype = dtype]), Len(heap) + 1)

\* Lines 988-992: numpy.clip(..., out=image) and the four augmented
\* assignments, all in place on the array the name image refers to.
ClipAndScale(heap, ref, in_range, omin, omax) ==
  [heap EXCEPT ![ref] =
     [shape |-> heap[ref].shape, dtype |-> "float64",
      px |-> ListOf([p \in 1..Len(heap[ref].px) |->
                       Rescaled(heap[ref].px[p], in_range, omin, omax)])]]

\* The values of the float array at ref cast into the array at into.
TruncateInto(heap, ref, into, build) ==
  [heap EXCEPT ![into] =
     [@ EXCEPT !.px = ListOf([p \in 1..Len(heap[ref].px) |->
                                Cast(heap[ref].px[p], heap[into].dtype, build)])]]

\* image[image_null_mask] = out_nodata, line 994, in place.
AssignMasked(heap, ref, mask_ref, value) ==
  [heap EXCEPT ![ref] =
     [@ EXCEPT !.px = ListOf([p \in 1..Len(heap[ref].px) |->
                                IF heap[mask_ref].px[p] THEN value ELSE heap[ref].px[p]])]]

\* rescale_intensity, lines 962-995.  image is a typed array; out_range,
\* image_nodata and image_null_mask are optional (<<>> is None, a mask is
\* given as <<mask>>).  The result holds every array alive at the return, the
\* caller's image first and the caller's mask, when given, second, and the
\* position of the returned array.  build is what the build makes of the
\* undefined casts of line 993.
RescaleIntensityRun(image, in_range, out_range, image_nodata, image_null_mask, out_dtype, out_nodata, build) ==
  LET caller == IF image_null_mask = NoneArg THEN <<image>>
                ELSE <<image, Typed("bool", image_null_mask[1])>>
      range == IF out_range = NoneArg THEN IInfo(out_dtype) ELSE out_range[1]
      \* lines 993-995, with the names image (the floats), out and
      \* image_null_mask bound
      Truncate(floats, out, mask) ==
        [status |-> "ok",
         heap |-> AssignMasked(TruncateInto(out.heap, floats, out.ref, build),
                               out.ref, mask, out_nodata),
         returned |-> out.ref]
      \* lines 988-993, with the names image (the floats) and image_null_mask
      \* bound
      Scale(floats, mask) ==
        Truncate(floats.ref,
                 AsType(ClipAndScale(floats.heap, floats.ref, in_range,
                                     range[1], range[2]),
                        floats.ref, out_dtype),
                 mask)
      \* lines 986-995, with the name image_null_mask bound
      Convert(mask) == Scale(AsType(mask.heap, 1, "float64"), mask.ref)
  IN IF image_null_mask = NoneArg /\ image_nodata = NoneArg
     THEN [status |-> "ValueError", heap |-> caller, returned |-> 0]
     ELSE Convert(IF image_null_mask = NoneArg
                  THEN EqualTo(caller, 1, image_nodata[1])
                  ELSE Bound(caller, 2))

\* rescale_intensity with a null mask given and out_dtype=numpy.uint8, as
\* its callers here use it, on a typed image: the returned array.
RescaleIntensity(image, image_null_mask, in_range, out_range, out_nodata, build) ==
  LET Returned(run) == Array(image.shape, ListOf(run.heap[run.returned].px))
  IN Returned(RescaleIntensityRun(image, in_range, <<out_range>>,
                                  NoneArg, <<image_null_mask>>, "uint8", out_nodata,
                                  build))

\* ~valid_data_mask
Invert(mask) == Array(mask.shape, [p \in 1..Len(mask.px) |-> ~ mask.px[p]])

\* What a lazy sequence of images yields at each step: an image and its
\* nodata, or the exception raised on the way to it.
Yielded(status, array, nodata) == [nodata |-> nodata, status |-> status, array |-> array]

\* _iter_images, lines 902-915.  rgb is a sequence of [path, file]; the
\* array read from a file has the file's dtype.
IterImages(rgb) ==
  [k \in 1..Len(rgb) |->
     IF rgb[k].file.meta.count # 1
     THEN Yielded("NotImplementedError", EmptyArray, NoneArg)
     ELSE Yielded("ok", Typed(rgb[k].file.meta.dtype, Item(rgb[k].file.data, 0)),
                  rgb[k].file.meta.nodata)]

\* _iter_arrays, lines 918-925.
IterArrays(rgb, nodata) ==
  [k \in 1..Len(rgb) |-> Yielded("ok", rgb[k], nodata)]

\* valid_data_mask &= array != nodata, for an array of the mask's shape; an
\* array compared with None differs everywhere, and a NaN differs from
\* every nodata, NaN included.
AndNotEqual(valid_data_mask, array, nodata) ==
  Array(valid_data_mask.shape,
        [p \in 1..Len(valid_data_mask.px) |->
           valid_data_mask.px[p] /\ (nodata = NoneArg \/ NotEqual(array.px[p], nodata[1]))])

\* array[valid_data_mask]: the pixels of the array where the mask is true,
\* in the array's order.
Masked(array, valid_data_mask) ==
  LET IsKept(p) == valid_data_mask.px[p]
      kept == SelectSeq([p \in 1..Len(array.px) |-> p], IsKept)
  IN [n \in 1..Len(kept) |-> array.px[kept[n]]]

\* the_data.any(): some value is not zero.
AnyNonZero(the_data) == \E n \in 1..Len(the_data) : the_data[n] # 0

\* numpy.around((n - 1) * (q / 100)) as float64 computes it, for a whole
\* percentage q of 0..100 and m = n - 1.  q / 100 is first rounded to the
\* nearest float64 (53 bits: the remainder of q * 2^(52 + s) by 100 tells by
\* how much, in units of the last bit, and to which side), then the product
\* with m is rounded again.  Away from a half the rounding to the nearest
\* integer is that of the exact m * q / 100.  At an exact half k + 1/2 the
\* product is the float64 k + 1/2 itself, whose rounding is to the even
\* neighbour, unless the error of q / 100 times m exceeds half the distance
\* to the next float64 on its side: then the product lies beside the half
\* and is rounded to that side.
AroundFloat(m, q) ==
  IF (m * q) % 100 # 50 THEN Around(m * q, 100)
  ELSE LET k == (m * q) \div 100
           s == BinadeBelowOne(q, 100, 0)
           left == (q * Pow2Mod(52 + s, 100)) % 100
           b == IF k = 0 THEN -1 ELSE Log2(k)
           \* |error| * m > half the distance to the next float64, both in
           \* units of 2^-(53 + s) / 100
       IN IF left = 0 THEN Around(m * q, 100)
          ELSE IF left < 50
          THEN \* q / 100 was rounded down: the product is at or below the half
               IF (IF k = 0 THEN 4 ELSE 2) * m * left > 100 * Pow2(b + s)
               THEN k ELSE Around(m * q, 100)
          ELSE \* q / 100 was rounded up: the product is at or above the half
               IF 2 * m * (100 - left) > 100 * Pow2(b + s)
               THEN k + 1 ELSE Around(m * q, 100)

\* sorted(the_data)[index], index counted from 0, for data without NaN; an
\* infinite value is above every other.
SortedAt(the_data, index) ==
  LET Less(a, b) == a # Inf /\ (b = Inf \/ a < b)
  IN CHOOSE v \in Range(the_data) :
       /\ Cardinality({n \in 1..Len(the_data) : Less(the_data[n], v)}) <= index
       /\ Cardinality({n \in 1..Len(the_data) : ~ Less(v, the_data[n])}) > index

\* numpy.percentile(the_data, q, method="nearest") for one percentage q: the
\* value of the sorted data at the index nearest to (n - 1) * (q / 100),
\* computed in float64; NaN when one of the data is NaN.
Percentile(the_data, q) ==
  IF \E n \in 1..Len(the_data) : IsNan(the_data[n]) THEN NaN
  ELSE SortedAt(the_data, AroundFloat(Len(the_data) - 1, q))

\* Python's max(a, b) and min(a, b), lines 955-956: b when b > a (b < a),
\* and a otherwise, which it is whenever one of the two is NaN.
Max(a, b) ==
  IF IsNan(a) \/ IsNan(b) \/ a = Inf THEN a
  ELSE IF b = Inf \/ b > a THEN b ELSE a

Min(a, b) ==
  IF IsNan(a) \/ IsNan(b) \/ b = Inf THEN a
  ELSE IF a = Inf \/ b < a THEN b ELSE a

\* Lines 944-956 on the data of one array of the type dtype: the running
\* maximum of the lows and minimum of the highs.  The percentiles are numpy
\* scalars of the array's type, and max and min hand back one of their
\* arguments, so each end of the new range has the type of the scalar or
\* that of the end it replaces or keeps.
NarrowedRange(the_data, dtype, percentiles, calculated_range) ==
  LET Narrowed(low, high) ==
        <<Max(low, calculated_range[1]), Min(high, calculated_range[2]),
          IF Max(low, calculated_range[1]) = low THEN dtype
          ELSE RangeType(calculated_range, 1),
          IF Min(high, calculated_range[2]) = high THEN dtype
          ELSE RangeType(calculated_range, 2)>>
  IN Narrowed(Percentile(the_data, percentiles[1]),
              Percentile(the_data, percentiles[2]))

\* Lines 940-957, one pass of the loop after the mask has been updated with
\* the array: the percentiles of the array's pixels under the mask as it is
\* now, and the running maximum of the lows and minimum of the highs.
\* calculate_percentiles is optional: <<>> is None, <<pair>> a pair.
RangeOverMask(valid_data_mask, array, calculate_percentiles, calculated_range) ==
  IF calculate_percentiles = NoneArg THEN calculated_range
  ELSE LET Over(the_data) ==
             IF AnyNonZero(the_data)
             THEN NarrowedRange(the_data, array.dtype, calculate_percentiles[1],
                                calculated_range)
             ELSE calculated_range
       IN Over(ListOf(Masked(array, valid_data_mask)))

\* numpy's broadcasting of an array into an array of the given shape, as the
\* in-place &= of line 938 needs it: the array has no more dimensions than
\* the shape and, counted from the last, each of them is 1 or the shape's.
Broadcastable(from, shape) ==
  /\ Len(from) <= Len(shape)
  /\ \A d \in 1..Len(from) : from[d] \in {1, shape[d + Len(shape) - Len(from)]}

\* The place among the values of an array of shape from (counted from 0) that
\* the p-th value of the broadcast array (from 1) is read from: the sum, over
\* the dimensions d..Len(from), of the coordinate times the stride.
RECURSIVE BroadcastOffset(_, _, _, _)
BroadcastOffset(from, shape, p, d) ==
  IF d > Len(from) THEN 0
  ELSE LET e == d + Len(shape) - Len(from)
           coordinate == ((p - 1) \div Size(SubSeq(shape, e + 1, Len(shape)))) % shape[e]
       IN (IF from[d] = 1 THEN 0
           ELSE coordinate * Size(SubSeq(from, d + 1, Len(from))))
          + BroadcastOffset(from, shape, p, d + 1)

Broadcast(array, shape) ==
  Array(shape, [p \in 1..Size(shape) |->
                  array.px[BroadcastOffset(array.shape, shape, p, 1) + 1]])

\* read_valid_mask_and_value_range, lines 928-959, from the k-th image on:
\* the mask it fills in, the range it returns and the number of images it
\* drew.  An image of another shape that numpy can broadcast to the mask's
\* is broadcast into the mask, and then cannot be indexed by it (IndexError
\* at line 941) when percentiles are asked for; a shape that cannot be
\* broadcast is a ValueError at line 938, the mask left as it was.
RECURSIVE ReadValidMaskAndValueRangeFrom(_, _, _, _, _)
ReadValidMaskAndValueRangeFrom(valid_data_mask, images, calculate_percentiles, k, calculated_range) ==
  IF k > Len(images)
  THEN [status |-> "ok", valid_data_mask |-> valid_data_mask, calculated_range |-> calculated_range,
        drawn |-> Len(images)]
  ELSE IF images[k].status # "ok"
  THEN [status |-> images[k].status, valid_data_mask |-> valid_data_mask, calculated_range |-> calculated_range,
        drawn |-> k]
  ELSE IF images[k].array.shape = valid_data_mask.shape
  THEN LET Onward(mask) ==
             ReadValidMaskAndValueRangeFrom(
               mask, images, calculate_percentiles, k + 1,
               RangeOverMask(mask, images[k].array, calculate_percentiles,
                             calculated_range))
       IN Onward(AndNotEqual(valid_data_mask, images[k].array, images[k].nodata))
  ELSE IF Broadcastable(images[k].array.shape, valid_data_mask.shape)
  THEN LET Onward(mask) ==
             IF calculate_percentiles # NoneArg
             THEN [status |-> "IndexError", valid_data_mask |-> mask,
                   calculated_range |-> calculated_range, drawn |-> k]
             ELSE ReadValidMaskAndValueRangeFrom(mask, images, calculate_percentiles,
                                                 k + 1, calculated_range)
       IN Onward(AndNotEqual(valid_data_mask,
                           Broadcast(images[k].array, valid_data_mask.shape),
                           images[k].nodata))
  ELSE [status |-> "ValueError", valid_data_mask |-> valid_data_mask, calculated_range |-> calculated_range,
        drawn |-> k]

\* read_valid_mask_and_value_range(valid_data_mask, images, calculate_percentiles),
\* line 936: the range starts as the widest there is.
ReadValidMaskAndValueRange(valid_data_mask, images, calculate_percentiles) ==
  ReadValidMaskAndValueRangeFrom(valid_data_mask, images, calculate_percentiles, 1,
                                 <<-SysMaxsize - 1, SysMaxsize>>)

\* The bands of the quicklook, lines 873-892 and 790-811: each image rescaled
\* to 1..255 with 0 where the combined mask is not valid.  in_range is the
\* static range, a pair of Python integers, or the calculated one, a pair of
\* numpy scalars.
QuicklookBands(images, valid_data_mask, in_range, build) ==
  [k \in 1..Len(images) |->
     RescaleIntensity(images[k].array, Invert(valid_data_mask), in_range,
                      <<1, 255>>, 0, build)]

\* create_thumbnail, line 471: percentile_stretch=(2, 98).
DefaultPercentileStretch == <<2, 98>>

\* static_range or calculated_range, lines 878 and 796: a static range that
\* is given (a pair, <<>> is None) replaces the calculated one.
InRange(static_range, calculated_range) ==
  IF static_range = NoneArg THEN calculated_range ELSE static_range

\* create_thumbnail, line 468: out_scale=10.
DefaultOutScale == 10

\* The pixels of a band, by row and column counted from 0.
PixelAt(band, row, col) == band.px[row * band.shape[2] + col + 1]

\* The first and the last of the size pixels of a side (from 0) that pixel
\* i of the side read at thumb pixels covers; size is a multiple of thumb.
WindowFirst(i, size, thumb) == (i * size) \div thumb

WindowLast(i, size, thumb) == (((i + 1) * size + thumb - 1) \div thumb) - 1

\* The pixels of a band that pixel (row, col) of a read of it at height x
\* width pixels covers, row by row.
BlockValues(band, height, width, row, col) ==
  LET top == WindowFirst(row, band.shape[1], height)
      left == WindowFirst(col, band.shape[2], width)
      cols == WindowLast(col, band.shape[2], width) - left + 1
      rows == WindowLast(row, band.shape[1], height) - top + 1
  IN [k \in 1..rows * cols |->
        PixelAt(band, top + ((k - 1) \div cols), left + ((k - 1) % cols))]

RECURSIVE SumSeq(_)
SumSeq(values) ==
  IF values = <<>> THEN 0
  ELSE IF Len(values) = 1 THEN values[1]
  ELSE SumSeq(SubSeq(values, 1, Len(values) \div 2))
         + SumSeq(SubSeq(values, (Len(values) \div 2) + 1, Len(values)))

\* Resampling.average on a block: the mean, rounded to the nearest integer,
\* of the pixels that are not the quicklook's nodata 0, and 0 when there is
\* none.
BlockAverage(values) ==
  LET IsData(v) == v # 0
      data == SelectSeq(values, IsData)
  IN IF data = <<>> THEN 0
     ELSE (SumSeq(data) + (Len(data) \div 2)) \div Len(data)

\* Resampling.nearest on a block: the pixel that holds the centre of the
\* block.
BlockNearest(band, height, width, row, col) ==
  PixelAt(band, ((2 * row + 1) * band.shape[1]) \div (2 * height),
          ((2 * col + 1) * band.shape[2]) \div (2 * width))

\* ql_ds.read(index, out_shape=(thumb_height, thumb_width), resampling), lines
\* 536-540 and 612-616, on a band of the quicklook, with the thumb_height and
\* thumb_width of lines 514-515 and 591-592, shape // out_scale: each pixel
\* resampled from the block it covers.
ReadResampled(band, out_scale, resampling) ==
  LET height == band.shape[1] \div out_scale
      width == band.shape[2] \div out_scale
  IN Array(<<height, width>>,
           [p \in 1..height * width |->
              LET row == (p - 1) \div width
                  col == (p - 1) % width
              IN IF resampling = "average"
                 THEN BlockAverage(ListOf(BlockValues(band, height, width, row, col)))
                 ELSE BlockNearest(band, height, width, row, col)])

\* Lines 530-542 and 607-620: the bands 1..3 of the thumbnail are read from
\* the quicklook one after the other; a band the quicklook has not is an
\* IndexError, raised with the bands before it written.
ThumbnailBands(ql_bands, out_scale, resampling) ==
  LET written == IF Len(ql_bands) < 3 THEN Len(ql_bands) ELSE 3
  IN [status |-> IF Len(ql_bands) < 3 THEN "IndexError" ELSE "ok",
      bands |-> [k \in 1..written |-> ReadResampled(ql_bands[k], out_scale, resampling)]]

\* The reads of the first n of the files of rgb.
ReadEvents(rgb, n) == [k \in 1..n |-> Event("read", rgb[k].path)]

\* Lines 873-893: each file is read again and its band written to the quicklook.
RECURSIVE ReadAndWriteEvents(_, _)
ReadAndWriteEvents(rgb, k) ==
  IF k > Len(rgb) THEN <<>>
  ELSE <<Event("read", rgb[k].path), Event("write", "quicklook.tif")>>
         \o ReadAndWriteEvents(rgb, k + 1)

\* create_thumbnail, lines 465-542, with _write_quicklook, lines 816-896, on
\* the files rgb (a sequence of [path, file]) with a static stretch and no
\* input_geobox: the outcome, the accesses, and the file at out afterwards.
\* build is what the build makes of the undefined casts of rescale_intensity.
CreateThumbnail(rgb, out, out_scale, resampling, static_stretch, build) ==
  LET geobox_shape == <<rgb[1].file.meta.height, rgb[1].file.meta.width>>
      images == IterImages(rgb)
      \* lines 530-542, with the bands read from the quicklook
      Written(thumb_bands, io_mask) ==
        [status |-> thumb_bands.status,
         message |-> "",
         io |-> io_mask \o ReadAndWriteEvents(rgb, 1)
                  \o <<Event("read", "quicklook.tif"), Event("write", "out")>>,
         out |-> Thumbnail(thumb_bands.bands)]
      \* lines 873-893 and 508-542, with the mask and the range read
      Stretched(range, io_mask) ==
        IF range.status # "ok"
        THEN [status |-> range.status, message |-> "", io |-> io_mask, out |-> out]
        ELSE Written(ThumbnailBands(
                       QuicklookBands(images, range.valid_data_mask,
                                      InRange(static_stretch, range.calculated_range),
                                      build),
                       out_scale, resampling),
                     io_mask)
      Read(range) ==
        Stretched(range,
                  <<Event("read", rgb[1].path), Event("write", "quicklook.tif")>>
                    \o ReadEvents(rgb, range.drawn))
  IN Read(ReadValidMaskAndValueRange(Ones(geobox_shape), images,
                                     <<DefaultPercentileStretch>>))

\* create_thumbnail_from_numpy, lines 545-622, with _write_to_numpy_array,
\* lines 733-813, on the arrays rgb with a static stretch: the outcome, the
\* accesses, and the bytes returned.  input_geobox is optional, <<>> is None.
\* Line 615: the quicklook is read with Resampling.average, whatever the
\* argument resampling is.
CreateThumbnailFromNumpy(rgb, out_scale, resampling, static_stretch, input_geobox, nodata, build) ==
  IF input_geobox = NoneArg
  THEN [status |-> "NotImplementedError",
        value |-> NoFile,
        message |-> "generating geobox from numpy is't yet supported", io |-> <<>>]
  ELSE LET images == IterArrays(AsList(rgb), nodata)
           \* lines 607-622, with the bands read from the quicklook
           Written(thumb_bands) ==
             [status |-> thumb_bands.status,
              value |-> IF thumb_bands.status = "ok"
                        THEN Thumbnail(thumb_bands.bands) ELSE NoFile,
              message |-> "",
              io |-> <<Event("write", "MemoryFile.tif"),
                       Event("read", "MemoryFile.tif"),
                       Event("write", "MemoryFile.jpg")>>]
           \* lines 790-811 and 585-622, with the mask and the range read
           Stretched(range) ==
             IF range.status # "ok"
             THEN [status |-> range.status, value |-> NoFile, message |-> "", io |-> <<>>]
             ELSE Written(ThumbnailBands(
                            QuicklookBands(
                              images, range.valid_data_mask,
                              InRange(static_stretch, range.calculated_range),
                              build),
                            out_scale, "average"))
       IN Stretched(ReadValidMaskAndValueRange(Ones(input_geobox[1].shape), images,
                                               <<DefaultPercentileStretch>>))

\* DatasetWriter.write(arr) with no indexes, lines 655 and 668: the array must
\* have three dimensions, the first of them the dataset's band count.
SourceShapeError(meta, arr) == Len(arr.shape) # 3 \/ arr.shape[1] # meta.count

\* Lines 662-668: the three temporary files are written from the i-th
\* (from 0) on; the accesses made and the files written, or the ValueError of
\* the write that fails.
RECURSIVE WriteTempFiles(_, _, _, _, _)
WriteTempFiles(out_data, meta, i, io, temp_files) ==
  IF i = 3 THEN [status |-> "ok", io |-> io, temp_files |-> temp_files]
  ELSE LET path == <<"temp_0.tif", "temp_1.tif", "temp_2.tif">>[i + 1]
           opened == Append(io, Event("write", path))
       IN IF SourceShapeError(meta, Index(out_data, i))
          THEN [status |-> "ValueError", io |-> opened, temp_files |-> temp_files]
          ELSE WriteTempFiles(out_data, meta, i + 1, opened,
                              Append(temp_files,
                                     [path |-> path,
                                      file |-> RasterFile(meta, Index(out_data, i))]))

\* The messages of the two errors of invalid filter arguments.
BothMessage == "Please set either bit or lookup_table, and not both of them"
NeitherMessage == "Please set either bit or lookup_table, you haven't set either of them"
SourceShapeMessage == "Source shape is inconsistent with given indexes"

NoFilterArgsError == Raised("ok", "", <<>>)

\* The checks made on the truth of bit in place of its presence.
FilterArgsErrorByTruth(bit, lookup_table) ==
  IF Truthy(bit) /\ lookup_table # NoneArg
  THEN Raised("ValueError", BothMessage, <<>>)
  ELSE IF ~ Truthy(bit) /\ lookup_table = NoneArg
  THEN Raised("ValueError", NeitherMessage, <<>>)
  ELSE NoFilterArgsError

\* create_thumbnail_singleband, lines 636-641: the checks of bit and
\* lookup_table.
FilterArgsError(bit, lookup_table) ==
  IF bit # NoneArg /\ lookup_table # NoneArg
  THEN Raised("ValueError", BothMessage, <<>>)
  ELSE IF bit = NoneArg /\ lookup_table = NoneArg
  THEN Raised("ValueError", NeitherMessage, <<>>)
  ELSE NoFilterArgsError

\* The same checks made on the truth of bit, in the in-memory operation.
FromNumpyFilterArgsErrorByTruth(bit, lookup_table) ==
  IF Truthy(bit) /\ lookup_table # NoneArg
  THEN Raised("ValueError", BothMessage, <<>>)
  ELSE IF ~ Truthy(bit) /\ lookup_table = NoneArg
  THEN Raised("ValueError", NeitherMessage, <<>>)
  ELSE NoFilterArgsError

\* create_thumbnail_singleband_from_numpy, lines 684-689: the same checks.
FromNumpyFilterArgsError(bit, lookup_table) ==
  IF bit # NoneArg /\ lookup_table # NoneArg
  THEN Raised("ValueError", BothMessage, <<>>)
  ELSE IF bit = NoneArg /\ lookup_table = NoneArg
  THEN Raised("ValueError", NeitherMessage, <<>>)
  ELSE NoFilterArgsError

\* create_thumbnail_singleband, lines 643-669, once the checks have passed:
\* the outcome, the accesses, and the file at out afterwards.
SinglebandBody(in_file, out, bit, lookup_table, build) ==
  LET data == in_file.data
      meta == in_file.meta
      io_read == <<Event("read", "in_file")>>
      \* lines 662-669, with the three temporary files written
      FromFiles(written, stretch) ==
        IF written.status # "ok"
        THEN [status |-> written.status, message |-> SourceShapeMessage,
              io |-> written.io, out |-> out]
        ELSE [CreateThumbnail(written.temp_files, out, DefaultOutScale,
                              "average", stretch, build)
                EXCEPT !.io = written.io \o @]
      \* lines 652-660, with the one temporary file written
      FromFile(temp_file, stretch) ==
        [CreateThumbnail(<<temp_file, temp_file, temp_file>>, out,
                         DefaultOutScale, "average", stretch, build)
           EXCEPT !.io = Append(io_read, Event("write", "temp.tif")) \o @]
      Filtered(filtered) ==
        IF Truthy(bit)
        THEN IF SourceShapeError(meta, filtered.out_data.items[1])
             THEN [status |-> "ValueError", message |-> SourceShapeMessage,
                   io |-> Append(io_read, Event("write", "temp.tif")), out |-> out]
             ELSE FromFile([path |-> "temp.tif",
                            file |-> RasterFile(meta, filtered.out_data.items[1])],
                           filtered.stretch)
        ELSE FromFiles(WriteTempFiles(filtered.out_data, meta, 0, io_read, <<>>),
                       filtered.stretch)
  IN Filtered(FilterSinglebandData(data, bit, lookup_table))

\* create_thumbnail_singleband_from_numpy, lines 691-703, once the checks
\* have passed: the outcome, the accesses, and the bytes returned.
SinglebandFromNumpyBody(input_data, bit, lookup_table, input_geobox, nodata, build) ==
  LET Filtered(filtered) ==
        [CreateThumbnailFromNumpy(
           IF Truthy(bit)
           THEN List(<<filtered.out_data.items[1], filtered.out_data.items[1],
                       filtered.out_data.items[1]>>)
           ELSE filtered.out_data,
           DefaultOutScale, "average", filtered.stretch, input_geobox, nodata, build)
           EXCEPT !.io = <<Event("read", "input_data")>> \o @]
  IN Filtered(FilterSinglebandData(input_data, bit, lookup_table))

\* ------------------------------------------------------------------------
\* The state of one MeasurementBundler and of the call in progress, and of
\* the thumbnail operations: the file at the out path and the last call.
\* ------------------------------------------------------------------------

VARIABLES
  measurements_per_grid,  \* self._measurements_per_grid, in insertion order
  mask_by_grid,           \* self.mask_by_grid, in insertion order
  pc,                     \* "idle", or the place in consume_and_get_valid_data
  call,                   \* the locals of the consume call in progress
  ret,                    \* the last call and its outcome: [op, args, status, value]
  store_at_call,          \* history: mask_by_grid when the consume call began
  history,                \* history: which of the finalizing calls have returned;
                          \* expanded, the valid pixels that the record calls
                          \* supplied for each grid since its mask was last
                          \* consumed; expanded_at_call, expanded when the last
                          \* consume call began
  out_file,               \* the file at the out path of the thumbnail operations
  thumb                   \* the last thumbnail call: [op, args, status, message, io, value]

bundler_vars ==
  <<measurements_per_grid, mask_by_grid, pc, call, ret, store_at_call, history>>

thumbnail_vars == <<out_file, thumb>>

vars == <<measurements_per_grid, mask_by_grid, pc, call, ret, store_at_call, history,
          out_file, thumb>>

\* The values a local or a field of the record of the last call holds when
\* the call has no such argument or result; each field keeps one shape.
NoGrid == GeoBox(<<0, 0>>, [a |-> 0, e |-> 0, xoff |-> 0, yoff |-> 0], NoCrs)

NoCall == [grid |-> NoGrid, mask |-> <<>>, valid_data_method |-> "", geoms |-> <<>>]

NoArgs == [name |-> <<>>, grid |-> NoGrid, valid_data_method |-> "",
           expand_valid_data |-> FALSE]

NoValue == [named_grids |-> <<>>, docs |-> NoDocs, geometry |-> {}]

Outcome(op, args, status, value) ==
  [status |-> status, value |-> value, op |-> op, args |-> args]

TypeOK ==
  pc \in {"idle", "loop", "geom"}

\* The arguments of a thumbnail call; those an operation has not are
\* NoRaster, EmptyArray or None.
ThumbArgs(in_file, input_data, bit, lookup_table, input_geobox, nodata) ==
  [nodata |-> nodata, bit |-> bit, lookup_table |-> lookup_table,
   input_geobox |-> input_geobox, in_file |-> in_file, input_data |-> input_data]

NoThumb ==
  [status |-> "ok", value |-> NoFile,
   op |-> "", message |-> "", io |-> <<>>,
   args |-> ThumbArgs(NoRaster, EmptyArray, NoneArg, NoneArg, NoneArg, NoneArg)]

\* __init__
InitBundler ==
  /\ measurements_per_grid = <<>>
  /\ mask_by_grid = <<>>
  /\ pc = "idle"
  /\ call = NoCall
  /\ ret = Outcome("__init__", NoArgs, "ok", NoValue)
  /\ store_at_call = <<>>
  /\ history = [named |-> FALSE, consumed |-> FALSE, expanded |-> <<>>,
                expanded_at_call |-> <<>>]

\* __init__, and no thumbnail made yet.
Init ==
  /\ InitBundler
  /\ out_file = NoFile
  /\ thumb = NoThumb

\* A call of one of the functions of the module that is about to be made:
\* its arguments, and nothing run yet.
Pending(args) == [NoThumb EXCEPT !.args = args]

\* History: the pixels of img that hold data, added to those that earlier
\* record calls supplied for the grid.  A pixel holds data when it is finite
\* if nodata is NaN (the default for floating-point images) and when it
\* differs from nodata otherwise (0 by default for integer images).
HoldsData(img, nodata_arg, i) ==
  LET nodata == IF nodata_arg # NoneArg THEN nodata_arg[1]
                ELSE IF img.dtype = "float" THEN NaN ELSE 0
  IN IF nodata = NaN THEN img.px[i] \notin {NaN, Inf} ELSE img.px[i] # nodata

Supplied(expanded, grid, img, nodata_arg) ==
  IF \E k \in 1..Len(expanded) : expanded[k].grid = grid
  THEN [k \in 1..Len(expanded) |->
          IF expanded[k].grid = grid
          THEN [grid |-> grid,
                mask |-> [i \in 1..Len(img.px) |->
                            expanded[k].mask[i] \/ HoldsData(img, nodata_arg, i)]]
          ELSE expanded[k]]
  ELSE Append(expanded,
              [grid |-> grid,
               mask |-> [i \in 1..Len(img.px) |-> HoldsData(img, nodata_arg, i)]])

\* The history when a call other than consume begins: what the last consume
\* call found is kept until the next call.
AtCall(h) == [h EXCEPT !.expanded_at_call = <<>>]

\* The history without the grid that popitem() has taken.
Popped(expanded, grid) ==
  LET IsOther(entry) == entry.grid # grid
  IN SelectSeq(expanded, IsOther)

\* A record call that expands the grid's mask before it looks for a
\* duplicate.
RecordImageMaskFirst(name, grid, path, img, layer, nodata, expand_valid_data) ==
  LET args == [name |-> name, grid |-> grid, valid_data_method |-> "",
               expand_valid_data |-> expand_valid_data]
      normalised == NormaliseGrid(grid)
      expanded == IF expand_valid_data /\ grid.crs # NoCrs
                  THEN ExpandValidDataMask(mask_by_grid, normalised, img, nodata)
                  ELSE mask_by_grid
  IN
  /\ pc = "idle"
  /\ store_at_call' = <<>>
  /\ UNCHANGED <<pc, call, out_file, thumb>>
  /\ history' = AtCall(history)
  /\ mask_by_grid' = expanded
  /\ IF IsDuplicate(measurements_per_grid, name)
     THEN /\ ret' = Outcome("record_image", args, "ValueError", NoValue)
          /\ UNCHANGED measurements_per_grid
     ELSE IF grid.crs = NoCrs
     THEN /\ ret' = Outcome("record_image", args, "AttributeError", NoValue)
          /\ UNCHANGED measurements_per_grid
     ELSE /\ measurements_per_grid' =
               AddMeasurement(measurements_per_grid, normalised,
                              MeasurementLocation(name, path, layer))
          /\ ret' = Outcome("record_image", args, "ok", NoValue)

\* A record call that expands the grid's mask whatever expand_valid_data is.
RecordImageAlwaysExpands(name, grid, path, img, layer, nodata, expand_valid_data) ==
  LET args == [name |-> name, grid |-> grid, valid_data_method |-> "",
               expand_valid_data |-> expand_valid_data]
  IN
  /\ pc = "idle"
  /\ store_at_call' = <<>>
  /\ UNCHANGED <<pc, call, out_file, thumb>>
  /\ IF IsDuplicate(measurements_per_grid, name)
     THEN /\ ret' = Outcome("record_image", args, "ValueError", NoValue)
          /\ UNCHANGED <<measurements_per_grid, mask_by_grid>>
          /\ history' = AtCall(history)
     ELSE IF grid.crs = NoCrs
     THEN /\ ret' = Outcome("record_image", args, "AttributeError", NoValue)
          /\ UNCHANGED <<measurements_per_grid, mask_by_grid>>
          /\ history' = AtCall(history)
     ELSE LET normalised == NormaliseGrid(grid)
          IN /\ measurements_per_grid' =
                  AddMeasurement(measurements_per_grid, normalised,
                                 MeasurementLocation(name, path, layer))
             /\ mask_by_grid' = ExpandValidDataMask(mask_by_grid, normalised, img, nodata)
             /\ ret' = Outcome("record_image", args, "ok", NoValue)
             /\ history' =
                  IF expand_valid_data
                  THEN [AtCall(history) EXCEPT
                          !.expanded = ListOf(Supplied(@, normalised, img, nodata))]
                  ELSE AtCall(history)

\* record_image(name, grid, path, img, layer, nodata, expand_valid_data).
\* grid.crs.epsg on a grid with no CRS is an AttributeError, raised after the
\* duplicate check and before anything is stored.
RecordImage(name, grid, path, img, layer, nodata, expand_valid_data) ==
  LET args == [name |-> name, grid |-> grid, valid_data_method |-> "",
               expand_valid_data |-> expand_valid_data]
  IN
  /\ pc = "idle"
  /\ store_at_call' = <<>>
  /\ UNCHANGED <<pc, call, out_file, thumb>>
  /\ IF IsDuplicate(measurements_per_grid, name)
     THEN /\ ret' = Outcome("record_image", args, "ValueError", NoValue)
          /\ UNCHANGED <<measurements_per_grid, mask_by_grid>>
          /\ history' = AtCall(history)
     ELSE IF grid.crs = NoCrs
     THEN /\ ret' = Outcome("record_image", args, "AttributeError", NoValue)
          /\ UNCHANGED <<measurements_per_grid, mask_by_grid>>
          /\ history' = AtCall(history)
     ELSE LET normalised == NormaliseGrid(grid)
          IN /\ measurements_per_grid' =
                  AddMeasurement(measurements_per_grid, normalised,
                                 MeasurementLocation(name, path, layer))
             /\ mask_by_grid' =
                  IF expand_valid_data
                  THEN ExpandValidDataMask(mask_by_grid, normalised, img, nodata)
                  ELSE mask_by_grid
             /\ ret' = Outcome("record_image", args, "ok", NoValue)
             /\ history' =
                  IF expand_valid_data
                  THEN [AtCall(history) EXCEPT
                          !.expanded = ListOf(Supplied(@, normalised, img, nodata))]
                  ELSE AtCall(history)

\* A call of _as_named_grids that sorts the registry's own buckets and pops
\* the default from them.
CallAsNamedGridsInPlace ==
  /\ pc = "idle"
  /\ LET result == AsNamedGrids(measurements_per_grid)
     IN /\ ret' = Outcome("_as_named_grids", NoArgs, result.status,
                      [NoValue EXCEPT !.named_grids = result.value])
        /\ history' = [AtCall(history) EXCEPT !.named = @ \/ result.status = "ok"]
  /\ measurements_per_grid' =
       IF measurements_per_grid = <<>> THEN <<>>
       ELSE Tail(GridsByFrequency(measurements_per_grid, MaxSize(measurements_per_grid)))
  /\ store_at_call' = <<>>
  /\ UNCHANGED <<mask_by_grid, pc, call, out_file, thumb>>

\* A call of _as_named_grids.
CallAsNamedGrids ==
  /\ pc = "idle"
  /\ LET result == AsNamedGrids(measurements_per_grid)
     IN /\ ret' = Outcome("_as_named_grids", NoArgs, result.status,
                      [NoValue EXCEPT !.named_grids = result.value])
        /\ history' = [AtCall(history) EXCEPT !.named = @ \/ result.status = "ok"]
  /\ store_at_call' = <<>>
  /\ UNCHANGED <<measurements_per_grid, mask_by_grid, pc, call, out_file, thumb>>

\* A call of as_geo_docs.
CallAsGeoDocs ==
  /\ pc = "idle"
  /\ LET result == AsGeoDocs(measurements_per_grid)
     IN /\ ret' = Outcome("as_geo_docs", NoArgs, result.status,
                      IF result.status = "ok"
                      THEN [NoValue EXCEPT !.docs = result.value]
                      ELSE NoValue)
        /\ history' = [AtCall(history) EXCEPT
                          !.named = @ \/ NamesGrids(measurements_per_grid)]
  /\ store_at_call' = <<>>
  /\ UNCHANGED <<measurements_per_grid, mask_by_grid, pc, call, out_file, thumb>>

\* consume_and_get_valid_data(valid_data_method): entry, line 386.
ConsumeCall(valid_data_method) ==
  /\ pc = "idle"
  /\ pc' = "loop"
  /\ call' = [NoCall EXCEPT !.valid_data_method = valid_data_method]
  /\ ret' = Outcome("consume_and_get_valid_data",
                  [NoArgs EXCEPT !.valid_data_method = valid_data_method],
                  "running", NoValue)
  /\ store_at_call' = mask_by_grid
  /\ history' = [history EXCEPT !.expanded_at_call = history.expanded]
  /\ UNCHANGED <<measurements_per_grid, mask_by_grid, out_file, thumb>>

\* A loop that reads the last entry and leaves it in the store.
ConsumePeek ==
  /\ pc = "loop"
  /\ mask_by_grid # <<>>
  /\ LET last == mask_by_grid[Len(mask_by_grid)]
     IN call' = [call EXCEPT !.grid = last.grid, !.mask = last.mask]
  /\ pc' = "geom"
  /\ UNCHANGED <<measurements_per_grid, mask_by_grid, ret, store_at_call, history,
                 out_file, thumb>>

\* A loop that removes the popped grid from the measurements as well.
ConsumePopMeasurements ==
  /\ pc = "loop"
  /\ mask_by_grid # <<>>
  /\ LET last == mask_by_grid[Len(mask_by_grid)]
         HoldsOther(entry) == entry.grid # last.grid
     IN /\ call' = [call EXCEPT !.grid = last.grid, !.mask = last.mask]
        /\ measurements_per_grid' = SelectSeq(measurements_per_grid, HoldsOther)
  /\ mask_by_grid' = SubSeq(mask_by_grid, 1, Len(mask_by_grid) - 1)
  /\ history' = [history EXCEPT
                   !.expanded = Popped(@, mask_by_grid[Len(mask_by_grid)].grid)]
  /\ pc' = "geom"
  /\ UNCHANGED <<ret, store_at_call, out_file, thumb>>

\* Lines 388-389: the loop test and popitem(), which removes the entry
\* inserted last.
ConsumePop ==
  /\ pc = "loop"
  /\ mask_by_grid # <<>>
  /\ LET last == mask_by_grid[Len(mask_by_grid)]
     IN call' = [call EXCEPT !.grid = last.grid, !.mask = last.mask]
  /\ mask_by_grid' = SubSeq(mask_by_grid, 1, Len(mask_by_grid) - 1)
  /\ history' = [history EXCEPT
                   !.expanded = Popped(@, mask_by_grid[Len(mask_by_grid)].grid)]
  /\ pc' = "geom"
  /\ UNCHANGED <<measurements_per_grid, ret, store_at_call, out_file, thumb>>

\* Lines 391-410: the geometry of the popped grid is computed and appended,
\* or the call ends with the error raised.
ConsumeGeometry ==
  /\ pc = "geom"
  /\ LET result == GridGeometry(call.valid_data_method, call.grid, call.mask)
     IN IF result.status = "ok"
        THEN /\ call' = [call EXCEPT !.geoms = Append(call.geoms, result.geom),
                                     !.grid = NoGrid, !.mask = <<>>]
             /\ pc' = "loop"
             /\ UNCHANGED ret
        ELSE /\ call' = NoCall
             /\ pc' = "idle"
             /\ ret' = Outcome("consume_and_get_valid_data", ret.args, result.status, NoValue)
  /\ UNCHANGED <<measurements_per_grid, mask_by_grid, store_at_call, history,
                 out_file, thumb>>

\* Lines 388 and 411: the store is empty, the union is returned.
ConsumeReturn ==
  /\ pc = "loop"
  /\ mask_by_grid = <<>>
  /\ ret' = Outcome("consume_and_get_valid_data", ret.args, "ok",
                  [NoValue EXCEPT !.geometry = UnaryUnion(call.geoms)])
  /\ call' = NoCall
  /\ pc' = "idle"
  /\ history' = [history EXCEPT !.consumed = TRUE]
  /\ UNCHANGED <<measurements_per_grid, mask_by_grid, store_at_call, out_file, thumb>>

ConsumeStep == ConsumePop \/ ConsumeGeometry \/ ConsumeReturn

\* The stretch of a single-band call, lines 719 and 726: the in_range its
\* rescaling has.
SinglebandStretch(bit, lookup_table) ==
  IF lookup_table # NoneArg \/ bit = NoneArg THEN <<0, 255>> ELSE <<0, bit[1]>>

\* The builds that differ on a single-band thumbnail: its stretch is a pair
\* of Python integers from 0, under which every pixel is rescaled into
\* 1..255, or to NaN when the two ends coincide.
SinglebandBuilds(bit, lookup_table) ==
  Builds("uint8", {Rescaled(0, SinglebandStretch(bit, lookup_table), 1, 255)})

\* create_thumbnail_singleband(in_file, out_file, bit, lookup_table), with the
\* file at in_file given by its content.
CreateThumbnailSingleband(in_file, bit, lookup_table) ==
  \E build \in SinglebandBuilds(bit, lookup_table) :
  LET error == FilterArgsError(bit, lookup_table)
      Return(result) ==
        /\ out_file' = result.out
        /\ thumb' = [status |-> result.status,
                     value |-> NoFile,
                     op |-> "create_thumbnail_singleband", message |-> result.message,
                     io |-> result.io,
                     args |-> ThumbArgs(in_file, EmptyArray, bit, lookup_table,
                                        NoneArg, NoneArg)]
        /\ UNCHANGED bundler_vars
  IN Return(IF error.status # "ok"
            THEN [status |-> error.status, message |-> error.message,
                  io |-> error.io, out |-> out_file]
            ELSE SinglebandBody(in_file, out_file, bit, lookup_table, build))

\* create_thumbnail_singleband_from_numpy(input_data, bit, lookup_table,
\* input_geobox, nodata).
CreateThumbnailSinglebandFromNumpy(input_data, bit, lookup_table, input_geobox, nodata) ==
  \E build \in SinglebandBuilds(bit, lookup_table) :
  LET error == FromNumpyFilterArgsError(bit, lookup_table)
      Return(result) ==
        /\ thumb' = [status |-> result.status,
                     value |-> result.value,
                     op |-> "create_thumbnail_singleband_from_numpy",
                     message |-> result.message,
                     io |-> result.io,
                     args |-> ThumbArgs(NoRaster, input_data, bit, lookup_table,
                                        input_geobox, nodata)]
        /\ UNCHANGED out_file
        /\ UNCHANGED bundler_vars
  IN Return(IF error.status # "ok"
            THEN [status |-> error.status, value |-> NoFile,
                  message |-> error.message, io |-> error.io]
            ELSE SinglebandFromNumpyBody(input_data, bit, lookup_table,
                                         input_geobox, nodata, build))

\* The builds that differ on the rescaling of a quicklook, lines 874-880
\* and 792-798: the in_range is the static stretch, or the range calculated
\* from the images, and the pixels are the images'.
QuicklookBuilds(static_stretch, shape, images) ==
  LET Stretched(range) ==
        IF range.status # "ok" THEN {DefaultBuild}
        ELSE Builds("uint8",
                    {Rescaled(v, InRange(static_stretch, range.calculated_range), 1, 255) :
                       v \in UNION {Range(images[k].array.px) : k \in 1..Len(images)}})
  IN Stretched(ReadValidMaskAndValueRange(Ones(shape), images,
                                          <<DefaultPercentileStretch>>))

\* The arguments of a call of create_thumbnail or create_thumbnail_from_numpy.
RgbArgs(rgb, out_scale, resampling, static_stretch, input_geobox, nodata) ==
  [nodata |-> nodata, rgb |-> rgb, out_scale |-> out_scale,
   resampling |-> resampling, static_stretch |-> static_stretch, input_geobox |-> input_geobox]

\* create_thumbnail(rgb, out, out_scale, resampling, static_stretch), with the
\* files of rgb given by their content.
CallCreateThumbnail(rgb, out_scale, resampling, static_stretch) ==
  \E build \in
       QuicklookBuilds(static_stretch,
                       <<rgb[1].file.meta.height, rgb[1].file.meta.width>>,
                       IterImages(rgb)) :
  LET Return(made) ==
        /\ out_file' = made.out
        /\ thumb' = [status |-> made.status,
                     value |-> NoFile,
                     op |-> "create_thumbnail", message |-> made.message,
                     io |-> made.io,
                     args |-> RgbArgs(rgb, out_scale, resampling, static_stretch,
                                      NoneArg, NoneArg)]
        /\ UNCHANGED bundler_vars
  IN Return(CreateThumbnail(rgb, out_file, out_scale, resampling, static_stretch,
                            build))

\* create_thumbnail_from_numpy(rgb, out_scale, resampling, static_stretch,
\* input_geobox, nodata).
CallCreateThumbnailFromNumpy(rgb, out_scale, resampling, static_stretch, input_geobox, nodata) ==
  \E build \in
       IF input_geobox = NoneArg THEN {DefaultBuild}
       ELSE QuicklookBuilds(static_stretch, input_geobox[1].shape,
                            IterArrays(AsList(rgb), nodata)) :
  LET Return(made) ==
        /\ thumb' = [status |-> made.status,
                     value |-> made.value,
                     op |-> "create_thumbnail_from_numpy", message |-> made.message,
                     io |-> made.io,
                     args |-> RgbArgs(rgb, out_scale, resampling, static_stretch,
                                      input_geobox, nodata)]
        /\ UNCHANGED out_file
        /\ UNCHANGED bundler_vars
  IN Return(CreateThumbnailFromNumpy(rgb, out_scale, resampling, static_stretch,
                                     input_geobox, nodata, build))

\* _find_a_common_name(group_of_names, all_possible_names), lines 153-200.
\* all_possible_names is optional (<<>> is None, <<names>> a set); line 181
\* takes the empty set for None.
CallFindACommonName(group_of_names, all_possible_names) ==
  LET names == IF all_possible_names = NoneArg THEN {} ELSE all_possible_names[1]
  IN /\ thumb' = [status |-> "ok",
                  value |-> FindACommonName(group_of_names, names),
                  op |-> "_find_a_common_name", message |-> "", io |-> <<>>,
                  args |-> [group_of_names |-> group_of_names,
                            all_possible_names |-> all_possible_names]]
     /\ UNCHANGED out_file
     /\ UNCHANGED bundler_vars

\* generate_tiles(samples, lines, xtile, ytile), with the generator drawn to
\* its end.
CallGenerateTiles(samples, lines, xtile, ytile) ==
  LET made == GenerateTiles(samples, lines, xtile, ytile)
  IN /\ thumb' = [status |-> made.status,
                  value |-> made.tiles,
                  op |-> "generate_tiles", message |-> "", io |-> <<>>,
                  args |-> [samples |-> samples, lines |-> lines, xtile |-> xtile,
                            ytile |-> ytile]]
     /\ UNCHANGED out_file
     /\ UNCHANGED bundler_vars

\* The arguments of a call of rescale_intensity.
RescaleArgs(image, in_range, out_range, image_nodata, image_null_mask, out_dtype, out_nodata) ==
  [in_range |-> in_range, out_dtype |-> out_dtype, image |-> image,
   out_range |-> out_range, image_nodata |-> image_nodata,
   image_null_mask |-> image_null_mask, out_nodata |-> out_nodata]

\* The builds that differ on a call of rescale_intensity.
RescaleBuilds(image, in_range, out_range, out_dtype) ==
  LET range == IF out_range = NoneArg THEN IInfo(out_dtype) ELSE out_range[1]
  IN Builds(out_dtype, {Rescaled(v, in_range, range[1], range[2]) : v \in Range(image.px)})

\* rescale_intensity(image, in_range, out_range, image_nodata,
\* image_null_mask, out_dtype), with out_nodata left at its default 0.  The
\* record of the call keeps the arguments as they were at the call and, as
\* its value, the caller's image and mask as they are at the return together
\* with the returned array.
CallRescaleIntensity(image, in_range, out_range, image_nodata, image_null_mask, out_dtype) ==
  \E build \in RescaleBuilds(image, in_range, out_range, out_dtype) :
  LET Return(run) ==
        /\ thumb' = [status |-> run.status,
                     value |-> [image |-> [run.heap[1] EXCEPT !.px = ListOf(@)],
                                image_null_mask |->
                                  IF image_null_mask = NoneArg THEN NoneArg
                                  ELSE <<Untyped(run.heap[2])>>,
                                returned |->
                                  IF run.status = "ok"
                                  THEN <<[run.heap[run.returned] EXCEPT !.px = ListOf(@)]>>
                                  ELSE NoneArg],
                     op |-> "rescale_intensity", message |-> "", io |-> <<>>,
                     args |-> RescaleArgs(image, in_range, out_range, image_nodata,
                                          image_null_mask, out_dtype, 0)]
        /\ UNCHANGED out_file
        /\ UNCHANGED bundler_vars
  IN Return(RescaleIntensityRun(image, in_range, out_range, image_nodata,
                                image_null_mask, out_dtype, 0, build))

\* read_valid_mask_and_value_range(valid_data_mask, images, calculate_percentiles),
\* lines 928-959.  The mask is the caller's array, filled in in place: what
\* it holds after the call is kept beside the range returned.
CallReadValidMaskAndValueRange(valid_data_mask, images, calculate_percentiles) ==
  LET result == ReadValidMaskAndValueRange(valid_data_mask, images, calculate_percentiles)
  IN /\ thumb' = [status |-> result.status,
                  value |-> [valid_data_mask |-> result.valid_data_mask,
                             calculated_range |-> result.calculated_range],
                  op |-> "read_valid_mask_and_value_range", message |-> "", io |-> <<>>,
                  args |-> [valid_data_mask |-> valid_data_mask,
                            calculate_percentiles |-> calculate_percentiles,
                            images |-> images]]
     /\ UNCHANGED out_file
     /\ UNCHANGED bundler_vars

\* ------------------------------------------------------------------------
\* Inputs of the record calls.
\* ------------------------------------------------------------------------

nbar_blue == <<"n", "b", "a", "r", "_", "b", "l", "u", "e">>
nbar_red == <<"n", "b", "a", "r", "_", "r", "e", "d">>
nbart_blue == <<"n", "b", "a", "r", "t", "_", "b", "l", "u", "e">>
qa == <<"q", "a">>

Affine(a, e, xoff, yoff) == [a |-> a, e |-> e, xoff |-> xoff, yoff |-> yoff]

\* 1 x 2 pixels of 30 units, and the same grid with its CRS given as WKT.
GridA == GeoBox(<<1, 2>>, Affine(300, -300, 0, 0), "EPSG:32655")
GridAwkt == GeoBox(<<1, 2>>, Affine(300, -300, 0, 0), "WKT:32655")
\* 1 x 1 pixel of 0.5 units.
GridB == GeoBox(<<1, 1>>, Affine(5, -5, 0, 0), "EPSG:32655")
\* 1 x 1 pixel of 30.5 units in another CRS.
GridC == GeoBox(<<1, 1>>, Affine(305, -305, 0, 0), "EPSG:4326")
\* 1 x 1 pixel of 15 units in a CRS with no EPSG code.
GridD == GeoBox(<<1, 1>>, Affine(150, -150, 0, 0), "CUSTOM")
\* A grid with no CRS.
GridNoCrs == GeoBox(<<1, 2>>, Affine(300, -300, 0, 0), NoCrs)

Image(dtype, px) == [dtype |-> dtype, px |-> px]

\* The images supplied for a grid, all of the grid's shape: integer arrays
\* that are 1 at one pixel and 0 elsewhere, floating-point arrays that are
\* infinite everywhere or 1 at one pixel and NaN elsewhere.
IntImages(grid) ==
  {Image("int", [i \in 1..NumPixels(grid) |-> IF i = k THEN 1 ELSE 0]) :
     k \in 1..NumPixels(grid)}

FloatImages(grid) ==
  {Image("float", [i \in 1..NumPixels(grid) |-> Inf])} \cup
  {Image("float", [i \in 1..NumPixels(grid) |-> IF i = k THEN 1 ELSE NaN]) :
     k \in 1..NumPixels(grid)}

NodataArgs == {NoneArg, <<1>>, <<NaN>>}

ValidDataMethods == {"thorough", "filled", "convex_hull", "bounds", "unexpected"}

NoLayer == "None"

\* The greatest number of measurements recorded in one run.
MaxRecords == 3

NumRecorded ==
  Cardinality(AllNames(measurements_per_grid))

\* The record calls of a run over the given inputs.  A call that does not
\* expand the valid data reads neither img nor nodata, so one of each is
\* enough there.
RecordFrom(names, grids, paths, with_floats, expands) ==
  \E name \in names, grid \in grids, path \in paths, expand_valid_data \in expands :
    \E img \in IF expand_valid_data
               THEN IntImages(grid) \cup (IF with_floats THEN FloatImages(grid) ELSE {})
               ELSE {Image("int", [i \in 1..NumPixels(grid) |-> 1])},
       nodata \in IF expand_valid_data THEN NodataArgs ELSE {NoneArg} :
      RecordImage(name, grid, path, img, NoLayer, nodata, expand_valid_data)

\* The whole life of one registry: a few measurements on two-pixel and
\* one-pixel grids, with masks, naming, geo documents and consumption.
Record ==
  /\ NumRecorded < MaxRecords
  /\ RecordFrom({nbar_blue, nbar_red, qa}, {GridA, GridAwkt, GridD},
                {"a.tif"}, TRUE, BOOLEAN)

Consume == \E valid_data_method \in ValidDataMethods : ConsumeCall(valid_data_method)

Next ==
  \/ Record
  \/ CallAsNamedGrids
  \/ CallAsGeoDocs
  \/ Consume
  \/ ConsumePop
  \/ ConsumeGeometry
  \/ ConsumeReturn

Spec == Init /\ [][Next]_vars

\* consume_and_get_valid_data runs to completion once called: the program is
\* single-threaded and nothing suspends the loop.
FairSpec == Spec /\ WF_vars(ConsumeStep)

\* Naming: more names and grids, no masks.  The greatest number of
\* measurements recorded in such a run:
MaxNamed == 4

RecordNamed ==
  /\ NumRecorded < MaxNamed
  /\ RecordFrom({nbar_blue, nbar_red, nbart_blue, qa, DefaultName},
                {GridA, GridAwkt, GridB, GridC, GridNoCrs}, {"a.tif"}, FALSE, {FALSE})

NextNaming ==
  \/ RecordNamed
  \/ CallAsNamedGrids
  \/ CallAsGeoDocs

SpecNaming == Init /\ [][NextNaming]_vars

\* Many grids: the k-th record call puts one measurement on a k-th grid of
\* 1 x k pixels; all the grids have the same resolution.  The measurement is
\* named b<k>, or "default".
MaxManyGrids == 54

ManyGrid(k) == GeoBox(<<1, k>>, Affine(300, -300, 0, 0), "EPSG:32655")

ManyName(k) == <<"b">> \o IntToStr(k)

RecordMany ==
  /\ Len(measurements_per_grid) < MaxManyGrids
  /\ LET k == Len(measurements_per_grid) + 1
     IN RecordFrom({ManyName(k), DefaultName}, {ManyGrid(k)}, {"b.tif"}, FALSE, {FALSE})

NextMany ==
  \/ RecordMany
  \/ CallAsNamedGrids
  \/ CallAsGeoDocs

SpecMany == Init /\ [][NextMany]_vars

\* Many grids in more than one CRS: as in the runs of many grids, the k-th
\* grid has 1 x k pixels and one measurement b<k>, but the second grid's
\* measurement is named "default", and each of the first grids is in one of
\* two CRSes, one of them also given as WKT.  Once, while the registry holds
\* two or three grids, a measurement x is recorded on one of them.
MaxCrsGrids == 54

\* How many of the first grids choose their CRS.
NumCrsChoosers == 3

CrsGrid(k, crs) == GeoBox(<<1, k>>, Affine(300, -300, 0, 0), crs)

CrsChoices(k) ==
  IF k <= NumCrsChoosers THEN {"EPSG:32655", "WKT:32655", "EPSG:4326"} ELSE {"EPSG:32655"}

RecordCrs ==
  /\ Len(measurements_per_grid) < MaxCrsGrids
  /\ LET k == Len(measurements_per_grid) + 1
     IN \E crs \in CrsChoices(k) :
          RecordFrom({IF k = 2 THEN DefaultName ELSE ManyName(k)}, {CrsGrid(k, crs)},
                     {"b.tif"}, FALSE, {FALSE})

RecordExtra ==
  /\ Len(measurements_per_grid) \in 2..NumCrsChoosers
  /\ \E j \in 1..Len(measurements_per_grid) :
       RecordFrom({<<"x">>}, {measurements_per_grid[j].grid}, {"b.tif"}, FALSE, {FALSE})

NextCrs ==
  \/ RecordCrs
  \/ RecordExtra
  \/ CallAsGeoDocs

SpecCrs == Init /\ [][NextCrs]_vars

\* The default grid among many: as in the runs of many grids, the k-th
\* record call puts one measurement on a k-th grid; while the registry holds
\* three grids, a second measurement, x or y, is recorded on one of them, so
\* that a grid that is not the first holds the most measurements, alone or
\* with another.
RecordSecond ==
  /\ Len(measurements_per_grid) = 3
  /\ \E j \in 1..Len(measurements_per_grid) :
       RecordFrom({<<"x">>, <<"y">>}, {measurements_per_grid[j].grid}, {"b.tif"},
                  FALSE, {FALSE})

NextDefault ==
  \/ RecordMany
  \/ RecordSecond
  \/ CallAsNamedGrids

SpecDefault == Init /\ [][NextDefault]_vars

\* Single-band thumbnails: rasters of ten by ten pixels, the least that the
\* default out_scale of ten makes a thumbnail of, whose left half holds one
\* value of 0..2 and whose right half another, with and without a nodata of
\* 0, and a raster of three bands; bit absent, 0, 1 or 2; no lookup table, an
\* empty one, or one that colours the values 1 and 2; nothing at the out
\* path, or a thumbnail made earlier.
ThumbBits == {NoneArg, <<0>>, <<1>>, <<2>>}

ExampleTable ==
  <<[value |-> <<255, 0, 128>>, key |-> 1], [value |-> <<0, 255, 255>>, key |-> 2]>>

LookupTables == {NoneArg, <<<<>>>>, <<ExampleTable>>}

ThumbShape == <<DefaultOutScale, DefaultOutScale>>

ThumbPixels == {<<0, 1>>, <<1, 2>>, <<2, 2>>}

\* The pixels of a band whose left half holds halves[1] and whose right half
\* halves[2].
Halves(halves, shape) ==
  [p \in 1..Size(shape) |->
     IF 2 * ((p - 1) % shape[2]) < shape[2] THEN halves[1] ELSE halves[2]]

\* The pixels of count bands, the k-th of which holds values[k] everywhere.
Flat(values, shape) ==
  [p \in 1..Len(values) * Size(shape) |-> values[((p - 1) \div Size(shape)) + 1]]

InFiles ==
  {RasterFile(RasterMeta(1, ThumbShape[1], ThumbShape[2], nodata, "uint8"),
              Array(<<1>> \o ThumbShape, ListOf(Halves(px, ThumbShape)))) :
     nodata \in {NoneArg, <<0>>}, px \in ThumbPixels}
  \cup {RasterFile(RasterMeta(3, ThumbShape[1], ThumbShape[2], NoneArg, "uint8"),
                   Array(<<3>> \o ThumbShape, ListOf(Flat(<<1, 2, 0>>, ThumbShape))))}

InArrays ==
  {Typed("uint8", Array(ThumbShape, ListOf(Halves(px, ThumbShape)))) : px \in ThumbPixels}

\* The nodata argument of the in-memory operation: its default, or 0.
ThumbNodata == {<<-999>>, <<0>>}

\* What the out path holds before a call.
OutFiles ==
  {NoFile, Thumbnail([k \in 1..3 |-> Array(<<1, 1>>, <<128>>)])}

ThumbCalls ==
  {ThumbArgs(in_file, EmptyArray, bit, lookup_table, NoneArg, NoneArg) :
     in_file \in InFiles, bit \in ThumbBits, lookup_table \in LookupTables}
  \cup {ThumbArgs(NoRaster, input_data, bit, lookup_table, input_geobox, nodata) :
          input_data \in InArrays, bit \in ThumbBits, lookup_table \in LookupTables,
          input_geobox \in {NoneArg, <<[shape |-> ThumbShape]>>}, nodata \in ThumbNodata}

InitThumb ==
  /\ InitBundler
  /\ out_file \in OutFiles
  /\ thumb \in {Pending(args) : args \in ThumbCalls}

Singleband ==
  /\ thumb.op = ""
  /\ thumb.args.in_file # NoRaster
  /\ CreateThumbnailSingleband(thumb.args.in_file, thumb.args.bit, thumb.args.lookup_table)

SinglebandFromNumpy ==
  /\ thumb.op = ""
  /\ thumb.args.in_file = NoRaster
  /\ CreateThumbnailSinglebandFromNumpy(thumb.args.input_data, thumb.args.bit,
                                        thumb.args.lookup_table, thumb.args.input_geobox,
                                        thumb.args.nodata)

NextThumb ==
  \/ Singleband
  \/ SinglebandFromNumpy

SpecThumb == InitThumb /\ [][NextThumb]_vars

\* Three-band thumbnails: bands of 2 x 2 pixels, of uint8 with values 0..3
\* or of int16 with values 40000 apart, given as single-band files that
\* share one nodata (0 or none) or as arrays with the nodata argument; one
\* band or three; out_scale one or two; average or nearest resampling; a
\* static stretch of (0, 3), or none.
RgbPixels == {<<1, 1, 1, 3>>, <<0, 2, 2, 2>>}

WidePixels == <<-20000, -19899, 20000, 20000>>

RgbShape == <<2, 2>>

RgbNodata == {NoneArg, <<0>>}

RgbOutScales == {1, 2}

Resamplings == {"average", "nearest"}

RgbStretch == <<0, 3>>

\* The type and the pixels of one band or of three, the third band as the
\* first.
RgbBands ==
  {[dtype |-> "uint8", px |-> <<px>>] : px \in RgbPixels}
    \cup {[dtype |-> "uint8", px |-> <<px, py, px>>] : px, py \in RgbPixels}
    \cup {[dtype |-> "int16", px |-> <<WidePixels, WidePixels, WidePixels>>]}

\* The ways a call is made: with the static stretch at every output scale
\* and resampling, and with no static stretch (the range is calculated from
\* the bands) at the out_scale of one, which keeps every pixel of the
\* quicklook.
RgbWays ==
  {[out_scale |-> out_scale, resampling |-> resampling, static_stretch |-> RgbStretch] :
     out_scale \in RgbOutScales, resampling \in Resamplings}
    \cup {[out_scale |-> 1, resampling |-> "average", static_stretch |-> NoneArg]}

BandFile(k, dtype, px, nodata) ==
  [path |-> <<"red.tif", "green.tif", "blue.tif">>[k],
   file |-> RasterFile(RasterMeta(1, RgbShape[1], RgbShape[2], nodata, dtype),
                       Array(<<1>> \o RgbShape, px))]

\* The calls on files, and the calls on arrays with a geobox beside them.
RgbFileCalls ==
  {RgbArgs([k \in 1..Len(bands.px) |-> BandFile(k, bands.dtype, bands.px[k], nodata)],
           way.out_scale, way.resampling, way.static_stretch, NoneArg, NoneArg) :
     bands \in RgbBands, nodata \in RgbNodata, way \in RgbWays}

RgbArrayCalls ==
  {RgbArgs(List([k \in 1..Len(bands.px) |->
                   Typed(bands.dtype, Array(RgbShape, bands.px[k]))]),
           way.out_scale, way.resampling, way.static_stretch,
           <<[shape |-> RgbShape]>>, nodata) :
     bands \in RgbBands, nodata \in RgbNodata, way \in RgbWays}

InitRgb ==
  /\ InitBundler
  /\ out_file \in OutFiles
  /\ \/ thumb \in {Pending(args) : args \in RgbFileCalls}
     \/ thumb \in {Pending(args) : args \in RgbArrayCalls}

\* The files of rgb have no geobox beside them, the arrays have.
Rgb ==
  /\ thumb.op = ""
  /\ thumb.args.input_geobox = NoneArg
  /\ CallCreateThumbnail(thumb.args.rgb, thumb.args.out_scale, thumb.args.resampling,
                         thumb.args.static_stretch)

RgbFromNumpy ==
  /\ thumb.op = ""
  /\ thumb.args.input_geobox # NoneArg
  /\ CallCreateThumbnailFromNumpy(thumb.args.rgb, thumb.args.out_scale,
                                  thumb.args.resampling, thumb.args.static_stretch,
                                  thumb.args.input_geobox, thumb.args.nodata)

NextRgb ==
  \/ Rgb
  \/ RgbFromNumpy

SpecRgb == InitRgb /\ [][NextRgb]_vars

\* Rescaling: images of 32 pixels of an 8 or 16 bit type, which between them
\* hold every value of an 8 bit type and, of a 16 bit type, the ends, zero,
\* the values beside them and some between; the input range the whole type,
\* a narrower one that clips both ends, a range wider than half the type,
\* and one whose ends are the wrong way round, each given as Python integers
\* and as numpy scalars of the image's type, or a single value; the output
\* range the whole of an output type or the quicklook's (1, 255); the nulls
\* given by a mask, by a nodata value, or by neither.
RescaleTypes == {"uint8", "int8", "uint16", "int16"}

\* The width in bits of an integer type.
Bits(dtype) == IF dtype \in {"uint8", "int8"} THEN 8 ELSE 16

RescaleShape == <<32>>

\* The values of the signed 16 bit images; those of the unsigned ones are
\* 32768 above.
RescaleSamples ==
  <<-32768, -32767, -32766, -32640, -32513, -32512, -30000, -20001,
    -20000, -19999, -19899, -12345, -4097, -256, -255, -129,
    -128, -2, -1, 0, 1, 2, 127, 128,
    255, 256, 4096, 12345, 19999, 20000, 32766, 32767>>

RescaleImages(dtype) ==
  IF Bits(dtype) = 8
  THEN {Typed(dtype, Array(RescaleShape,
                           [p \in 1..32 |-> IInfo(dtype)[1] + 32 * i + p - 1])) :
          i \in 0..7}
  ELSE {Typed(dtype, Array(RescaleShape,
                           [p \in 1..32 |-> RescaleSamples[p] - (-32768) + IInfo(dtype)[1]]))}

\* A range of more than half the type: its ends lie a good way inside the
\* ends of the type.
WideRange(dtype) ==
  LET margin == IF Bits(dtype) = 8 THEN 28 ELSE 12768
  IN <<IInfo(dtype)[1] + margin, IInfo(dtype)[2] - margin + 1>>

\* The range as a pair of numpy scalars of the type.
TypedRange(range, dtype) == <<range[1], range[2], dtype, dtype>>

RescaleInRanges(dtype) ==
  LET ranges == {IInfo(dtype), <<IInfo(dtype)[1] + 2, IInfo(dtype)[2] - 1>>,
                 WideRange(dtype), <<IInfo(dtype)[2] - 1, IInfo(dtype)[1] + 2>>}
  IN ranges \cup {TypedRange(range, dtype) : range \in ranges} \cup {<<1, 1>>}

RescaleOuts ==
  {[out_dtype |-> out_dtype, out_range |-> NoneArg] : out_dtype \in RescaleTypes}
    \cup {[out_dtype |-> "uint8", out_range |-> <<<<1, 255>>>>]}

RescaleNulls ==
  {[image_nodata |-> NoneArg, image_null_mask |-> NoneArg],
   [image_nodata |-> <<1>>, image_null_mask |-> NoneArg],
   [image_nodata |-> NoneArg,
    image_null_mask |-> <<Array(RescaleShape, [p \in 1..32 |-> FALSE])>>],
   [image_nodata |-> NoneArg,
    image_null_mask |-> <<Array(RescaleShape, [p \in 1..32 |-> p = 1])>>]}

RescaleCalls ==
  UNION {{RescaleArgs(image, in_range, out.out_range, nulls.image_nodata,
                      nulls.image_null_mask, out.out_dtype, 0) :
            image \in RescaleImages(dtype), in_range \in RescaleInRanges(dtype),
            out \in RescaleOuts, nulls \in RescaleNulls} :
           dtype \in RescaleTypes}

InitRescale ==
  /\ InitBundler
  /\ out_file = NoFile
  /\ thumb \in {Pending(args) : args \in RescaleCalls}

Rescale ==
  /\ thumb.op = ""
  /\ CallRescaleIntensity(thumb.args.image, thumb.args.in_range, thumb.args.out_range,
                          thumb.args.image_nodata, thumb.args.image_null_mask,
                          thumb.args.out_dtype)

NextRescale == Rescale

SpecRescale == InitRescale /\ [][NextRescale]_vars

\* Common names: groups of one or two of the names of the function's
\* doctests, and the two groups of three of them; as all possible names
\* nothing, or any set of the four names of the last doctest.
nbar_green == <<"n", "b", "a", "r", "_", "g", "r", "e", "e", "n">>
nbar_colon_band08 == <<"n", "b", "a", "r", ":", "b", "a", "n", "d", "0", "8">>
nbart_colon_band08 == <<"n", "b", "a", "r", "t", ":", "b", "a", "n", "d", "0", "8">>

GroupNames ==
  <<nbar_blue, nbar_red, nbar_green, nbart_blue, qa, nbar_colon_band08,
    nbart_colon_band08>>

GroupsOfNames ==
  {<<GroupNames[i]>> : i \in 1..Len(GroupNames)}
    \cup {<<GroupNames[p[1]], GroupNames[p[2]]>> :
            p \in {q \in (1..Len(GroupNames)) \X (1..Len(GroupNames)) : q[1] < q[2]}}
    \cup {<<nbar_blue, nbar_red, nbar_green>>, <<nbar_blue, nbar_red, qa>>}

AllPossibleNames ==
  {NoneArg} \cup {<<names>> : names \in SUBSET {nbar_blue, nbar_red, nbar_green, nbart_blue}}

CommonName ==
  \E group_of_names \in GroupsOfNames, all_possible_names \in AllPossibleNames :
    CallFindACommonName(group_of_names, all_possible_names)

NextNames == CommonName

SpecNames == Init /\ [][NextNames]_vars

\* The widest array tiled.
MaxSamples == 3

\* Tiling: arrays of one to three samples and of one line up to more than
\* twice the default tile height; tile sizes absent, negative, zero, smaller
\* than the array, equal to a side of it or larger.
TileSamples == 1..MaxSamples

TileLines == {1, 3, DefaultYTile, DefaultYTile + 1, 2 * DefaultYTile + 1}

XTiles == {NoneArg, <<-1>>, <<0>>, <<1>>, <<2>>}

YTiles == {NoneArg, <<-1>>, <<0>>, <<2>>, <<DefaultYTile>>}

Tiles ==
  \E samples \in TileSamples, lines \in TileLines, xtile \in XTiles, ytile \in YTiles :
    CallGenerateTiles(samples, lines, xtile, ytile)

NextTiles == Tiles

SpecTiles == Init /\ [][NextTiles]_vars

\* Geo documents: measurements whose names differ only by ':' and '_', on
\* two grids, and the documents made of them.
nbar_colon_blue == <<"n", "b", "a", "r", ":", "b", "l", "u", "e">>

RecordDocs ==
  /\ NumRecorded < MaxRecords
  /\ RecordFrom({nbar_blue, nbar_colon_blue, nbar_colon_band08, qa}, {GridA, GridB, GridC},
                {"a.tif", "b.tif"}, FALSE, {FALSE})

NextDocs ==
  \/ RecordDocs
  \/ CallAsGeoDocs

SpecDocs == Init /\ [][NextDocs]_vars

\* The stretch range: one to three bands of one row of three pixels, with
\* no nodata or nodata 0, and no percentiles, the whole range of the data,
\* the default percentiles or the median.  The bands have a pixel that is
\* nodata in one band only, ranges that overlap and ranges that do not, and
\* a band of zeros.
StretchShape == <<1, 3>>

StretchPixels == {<<4, 5, 6>>, <<0, 1, 7>>, <<1, 2, 0>>, <<0, 0, 0>>}

StretchBands ==
  {<<px>> : px \in StretchPixels}
    \cup (StretchPixels \X StretchPixels)
    \cup (StretchPixels \X StretchPixels \X StretchPixels)

StretchNodata == {NoneArg, <<0>>}

Percentiles == {NoneArg, <<<<0, 100>>>>, <<DefaultPercentileStretch>>, <<<<50, 50>>>>}

Stretch ==
  \E bands \in StretchBands, nodata \in StretchNodata, calculate_percentiles \in Percentiles :
    CallReadValidMaskAndValueRange(
      Ones(StretchShape),
      IterArrays([k \in 1..Len(bands) |-> Typed("uint8", Array(StretchShape, bands[k]))],
                 nodata),
      calculate_percentiles)

NextStretch == Stretch

SpecStretch == Init /\ [][NextStretch]_vars

\* ------------------------------------------------------------------------
\* Properties
\* ------------------------------------------------------------------------

\* The mask held for a grid, and whether one is held.
HasMask(masks, grid) == IndexOfGrid(masks, grid) # 0
MaskOf(masks, grid) == masks[IndexOfGrid(masks, grid)].mask

\* The buckets that hold a name.
BucketsHolding(mpg, name) ==
  {i \in 1..Len(mpg) : \E k \in 1..Len(mpg[i].measurements) :
                          mpg[i].measurements[k].name = name}

\* C1: a record call fails with the duplicate-measurement error (the
\* ValueError of record_image) exactly when its name is already held by some
\* grid of the registry, the call's own grid or another.
C1_DuplicateDetection ==
  [][ret'.op = "record_image" =>
       (ret'.status = "ValueError"
          <=> BucketsHolding(measurements_per_grid, ret'.args.name) # {})]_vars

\* C1 witness: a record call has failed as a duplicate of a measurement held
\* under a grid other than the call's.
C1_Witness ==
  /\ ret.op = "record_image"
  /\ ret.status = "ValueError"
  /\ \E i \in BucketsHolding(measurements_per_grid, ret.args.name) :
       measurements_per_grid[i].grid # NormaliseGrid(ret.args.grid)

\* C2: a record call never clears a pixel of a mask in the store: every mask
\* held before the call is held after it, with every true pixel still true
\* (so the count of true pixels does not decrease).
C2_MaskMonotone ==
  [][ret'.op = "record_image" =>
       \A i \in 1..Len(mask_by_grid) :
         /\ HasMask(mask_by_grid', mask_by_grid[i].grid)
         /\ \A p \in 1..Len(mask_by_grid[i].mask) :
              mask_by_grid[i].mask[p] => MaskOf(mask_by_grid', mask_by_grid[i].grid)[p]]_vars

\* C2 witness: a third measurement has just been recorded on the two-pixel
\* grid with expand_valid_data, through the WKT form of its CRS, and both
\* pixels of the grid's mask are true.
C2_Witness ==
  /\ ret.op = "record_image"
  /\ ret.status = "ok"
  /\ ret.args.expand_valid_data
  /\ ret.args.grid = GridAwkt
  /\ HasMask(mask_by_grid, GridA)
  /\ MaskOf(mask_by_grid, GridA) = <<TRUE, TRUE>>
  /\ \E i \in 1..Len(measurements_per_grid) :
       /\ measurements_per_grid[i].grid = GridA
       /\ Len(measurements_per_grid[i].measurements) = 3

\* The entries of a named-grids result under a name.
EntriesNamed(named_grids, name) ==
  {i \in 1..Len(named_grids) : named_grids[i].name = name}

\* The first bucket, in insertion order, with the most measurements.
FirstLargest(mpg) ==
  CHOOSE i \in 1..Len(mpg) :
    /\ \A j \in 1..Len(mpg) : Len(mpg[j].measurements) <= Len(mpg[i].measurements)
    /\ \A j \in 1..(i - 1) : Len(mpg[j].measurements) < Len(mpg[i].measurements)

\* C3 as stated: on every registry that holds a grid, _as_named_grids
\* returns, with exactly one entry named "default", and it is the
\* first-inserted of the grids with the most measurements, with that grid's
\* measurements.
C3_DefaultIsFirstLargest ==
  (ret.op = "_as_named_grids" /\ measurements_per_grid # <<>>) =>
    /\ ret.status = "ok"
    /\ Cardinality(EntriesNamed(ret.value.named_grids, DefaultName)) = 1
    /\ \A i \in EntriesNamed(ret.value.named_grids, DefaultName) :
         LET largest == measurements_per_grid[FirstLargest(measurements_per_grid)]
         IN /\ ret.value.named_grids[i].grid = largest.grid
            /\ ret.value.named_grids[i].measurements = largest.measurements

\* C3: on a registry that holds a grid, whenever _as_named_grids returns
\* (it raises when the other grids cannot be named), it returns exactly one
\* entry named "default", and it is the first-inserted of the grids with the
\* most measurements, with that grid's measurements, whichever stage named
\* the other grids.
C3_DefaultWhenNamed ==
  (ret.op = "_as_named_grids" /\ ret.status = "ok" /\ measurements_per_grid # <<>>) =>
    /\ Cardinality(EntriesNamed(ret.value.named_grids, DefaultName)) = 1
    /\ \A i \in EntriesNamed(ret.value.named_grids, DefaultName) :
         LET largest == measurements_per_grid[FirstLargest(measurements_per_grid)]
         IN /\ ret.value.named_grids[i].grid = largest.grid
            /\ ret.value.named_grids[i].measurements = largest.measurements

\* C3 witness: of three grids the second and the third tie for the most
\* measurements, two each; the default is the second, and the other two
\* were named.
C3_Witness ==
  /\ ret.op = "_as_named_grids"
  /\ ret.status = "ok"
  /\ Len(measurements_per_grid) = 3
  /\ Len(measurements_per_grid[1].measurements) = 1
  /\ Len(measurements_per_grid[2].measurements) = 2
  /\ Len(measurements_per_grid[3].measurements) = 2
  /\ Len(ret.value.named_grids) = 3
  /\ \E i \in EntriesNamed(ret.value.named_grids, DefaultName) :
       ret.value.named_grids[i].grid = measurements_per_grid[2].grid

\* The first strategy (common names) names every remaining grid.
FirstStrategyFinishes(mpg) ==
  /\ Len(mpg) >= 2
  /\ NameByCommonName(Tail(GridsByFrequency(mpg, MaxSize(mpg))),
                      <<NamedEntry(DefaultName, GridsByFrequency(mpg, MaxSize(mpg))[1])>>,
                      AllNames(mpg)).finished

\* The registry of the example: nbar_blue and nbar_red on one grid,
\* nbart_blue on another.
ExampleLocation(name) == MeasurementLocation(name, "a.tif", NoLayer)

ExampleRegistries ==
  {mpg \in {<<[grid |-> GridA, measurements |-> <<ExampleLocation(n1), ExampleLocation(n2)>>],
              [grid |-> GridB, measurements |-> <<ExampleLocation(nbart_blue)>>]>> :
              n1 \in {nbar_blue, nbar_red}, n2 \in {nbar_blue, nbar_red}} :
     mpg[1].measurements[1] # mpg[1].measurements[2]}

\* C4: when the first strategy names every remaining grid, each non-default
\* grid with exactly one measurement is named by that measurement's name; and
\* the example registry yields default: the grid of the two nbar bands,
\* nbart_blue: the other grid.
C4_SingleMeasurementName ==
  (ret.op = "_as_named_grids" /\ FirstStrategyFinishes(measurements_per_grid)) =>
    /\ ret.status = "ok"
    /\ \A i \in 1..Len(ret.value.named_grids) :
         (ret.value.named_grids[i].name # DefaultName /\ Len(ret.value.named_grids[i].measurements) = 1)
           => ret.value.named_grids[i].name = ret.value.named_grids[i].measurements[1].name
    /\ measurements_per_grid \in ExampleRegistries =>
         ret.value.named_grids = <<NamedEntry(DefaultName, measurements_per_grid[1]),
                       NamedEntry(nbart_blue, measurements_per_grid[2])>>

\* C4 witness: the named grids of the example registry have been produced.
C4_Witness ==
  /\ ret.op = "_as_named_grids"
  /\ ret.status = "ok"
  /\ measurements_per_grid \in ExampleRegistries
  /\ Len(ret.value.named_grids) = 2

\* The letter fallback is reached: neither the common names nor the
\* resolutions name every remaining grid.
FallbackReached(mpg) ==
  /\ Len(mpg) >= 2
  /\ ~ FirstStrategyFinishes(mpg)
  /\ ~ NameByResolution(Tail(GridsByFrequency(mpg, MaxSize(mpg))),
                        <<NamedEntry(DefaultName, GridsByFrequency(mpg, MaxSize(mpg))[1])>>).finished

\* C5 as claimed: when the fallback is reached, _as_named_grids fails with
\* the too-many-grids error (NotImplementedError) and returns no names if
\* more than 26 grids remain besides the default, and succeeds otherwise.
C5_Limit26 ==
  (ret.op = "_as_named_grids" /\ FallbackReached(measurements_per_grid)) =>
    IF Len(measurements_per_grid) - 1 > 26
    THEN ret.status = "NotImplementedError" /\ ret.value.named_grids = <<>>
    ELSE ret.status = "ok"

\* C5 as amended: the letters are the 52 of string.ascii_letters.  When the
\* fallback is reached, _as_named_grids fails with NotImplementedError and
\* returns no names if more than 52 grids remain besides the default; with 52
\* or fewer it succeeds and names the i-th remaining grid by the i-th letter.
C5_Limit52 ==
  (ret.op = "_as_named_grids" /\ FallbackReached(measurements_per_grid)) =>
    IF Len(measurements_per_grid) - 1 > 52
    THEN ret.status = "NotImplementedError" /\ ret.value.named_grids = <<>>
    ELSE /\ ret.status = "ok"
         /\ Len(ret.value.named_grids) = Len(measurements_per_grid)
         /\ \A i \in 2..Len(ret.value.named_grids) : ret.value.named_grids[i].name = <<Letters[i - 1]>>

\* C5 witness: the fallback was reached with 53 remaining grids and the call
\* failed.
C5_Witness ==
  /\ ret.op = "_as_named_grids"
  /\ FallbackReached(measurements_per_grid)
  /\ Len(measurements_per_grid) = 54
  /\ ret.status = "NotImplementedError"

\* C6: a call of _as_named_grids changes neither the measurement map nor the
\* mask store, and a call that follows another returns the same named grids:
\* the same names, grids and measurements in the same order.
C6_NamingIdempotent ==
  [][ret'.op = "_as_named_grids" =>
       /\ measurements_per_grid' = measurements_per_grid
       /\ mask_by_grid' = mask_by_grid
       /\ ret.op = "_as_named_grids" => ret' = ret]_vars

\* C6 witness: named grids have been produced for two grids while masks are
\* held.
C6_Witness ==
  /\ ret.op = "_as_named_grids"
  /\ ret.status = "ok"
  /\ Len(ret.value.named_grids) = 2
  /\ Len(mask_by_grid) = 2

\* The grids of the entries of a store, and of a sequence of geometries.
GridsOf(entries) == {entries[i].grid : i \in 1..Len(entries)}

\* The grids the running consume call holds outside the store: the one just
\* popped, and those whose geometry has been computed.
PoppedGrid == IF pc = "geom" THEN {call.grid} ELSE {}

\* C7, in every state: while consume_and_get_valid_data runs, each grid that
\* was in the store at the call is in exactly one place: still in the store,
\* just popped, or among the geometries, so a mask leaves the store before
\* its geometry is computed and there is one geometry per mask; and when the
\* call returns the store is empty and the union has one part per mask that
\* was in the store (none when the store was already empty).
C7_ConsumedOnce ==
  /\ pc # "idle" =>
       /\ GridsOf(mask_by_grid) \cup PoppedGrid \cup GridsOf(call.geoms)
            = GridsOf(store_at_call)
       /\ Len(mask_by_grid) + Cardinality(PoppedGrid) + Len(call.geoms)
            = Len(store_at_call)
       /\ SubSeq(store_at_call, 1, Len(mask_by_grid)) = mask_by_grid
  /\ (pc = "idle" /\ ret.op = "consume_and_get_valid_data" /\ ret.status = "ok") =>
       /\ mask_by_grid = <<>>
       /\ Cardinality(ret.value.geometry) = Len(store_at_call)
       /\ {g.grid : g \in ret.value.geometry} = GridsOf(store_at_call)

\* C7: consume_and_get_valid_data always ends once begun, and drains the
\* mask store: each mask that was in the store at the call leaves it exactly
\* once, before its geometry is computed; one geometry is produced per mask;
\* when the call returns the store is empty, so a second call finds no mask
\* and returns the empty union.
C7_ConsumeDrains ==
  /\ []C7_ConsumedOnce
  /\ (pc # "idle") ~> (pc = "idle")

\* C7 witness: a consume call has returned the union of the geometries of the
\* two masks that were in the store.
C7_Witness ==
  /\ pc = "idle"
  /\ ret.op = "consume_and_get_valid_data"
  /\ ret.status = "ok"
  /\ Len(store_at_call) = 2
  /\ Cardinality(ret.value.geometry) = 2
  /\ mask_by_grid = <<>>

\* The registry has been finalized: the named grids have been produced and
\* consume_and_get_valid_data has returned.
Finalized == history.named /\ history.consumed

CrsesOf(mpg) == {mpg[i].grid.crs : i \in 1..Len(mpg)} \ {NoCrs}

\* _as_named_grids fails on the registry: the letters of the fallback run out.
NamingFails(mpg) == FallbackReached(mpg) /\ Len(mpg) - 1 > Len(Letters)

\* C9 as the specification states it: as_geo_docs fails with the
\* inconsistent-CRS error (the ValueError of as_geo_docs) whenever the
\* registry holds two grids with different non-null CRSes, and returns the
\* single CRS when the non-null CRSes agree.
C9_CrsMismatchAlways ==
  (ret.op = "as_geo_docs" /\ measurements_per_grid # <<>>) =>
    IF Cardinality(CrsesOf(measurements_per_grid)) > 1
    THEN ret.status = "ValueError"
    ELSE ret.status = "ok" /\ {ret.value.docs.crs} = CrsesOf(measurements_per_grid)

\* C9 as the code has it: as_geo_docs names the grids first, so when the
\* naming fails (the fallback is reached with more than 52 grids besides the
\* default) it fails with the naming's NotImplementedError, whatever the
\* CRSes.  Otherwise it fails with the ValueError whenever two grids of the
\* registry have different non-null CRSes, whichever of them is visited
\* first, and returns the single CRS when they agree.
C9_CrsMismatchWhenNamed ==
  (ret.op = "as_geo_docs" /\ measurements_per_grid # <<>>) =>
    IF NamingFails(measurements_per_grid)
    THEN ret.status = "NotImplementedError"
    ELSE IF Cardinality(CrsesOf(measurements_per_grid)) > 1
    THEN ret.status = "ValueError"
    ELSE ret.status = "ok" /\ {ret.value.docs.crs} = CrsesOf(measurements_per_grid)

\* C9 witness: as_geo_docs has failed with the ValueError on a registry of
\* three grids where the default grid, visited first, is the one inserted
\* last and the only one in its CRS.
C9_Witness ==
  /\ ret.op = "as_geo_docs"
  /\ ret.status = "ValueError"
  /\ Len(measurements_per_grid) = 3
  /\ Len(measurements_per_grid[3].measurements) = 2
  /\ measurements_per_grid[1].grid.crs = measurements_per_grid[2].grid.crs
  /\ measurements_per_grid[3].grid.crs # measurements_per_grid[1].grid.crs

SinglebandOps ==
  {"create_thumbnail_singleband", "create_thumbnail_singleband_from_numpy"}

\* A call has failed with the error of invalid filter arguments.
IsFilterArgsError(t) ==
  t.status = "ValueError" /\ t.message \in {BothMessage, NeitherMessage}

\* C10: a single-band thumbnail call, to a file or in memory, given both bit
\* and lookup_table or neither of them, fails with the error of invalid
\* filter arguments (the ValueError with the message for the case), whatever
\* the bit, 0 included, having made no access to its input or to any file,
\* and leaves the file at out as it was; given exactly one of them it does
\* not fail with that error.
C10_FilterArgsChecked ==
  [][thumb'.op \in SinglebandOps =>
       LET bit == thumb'.args.bit
           lookup_table == thumb'.args.lookup_table
       IN /\ (bit # NoneArg /\ lookup_table # NoneArg) =>
               /\ thumb'.status = "ValueError"
               /\ thumb'.message = BothMessage
               /\ thumb'.io = <<>>
               /\ thumb'.value = NoFile
               /\ out_file' = out_file
          /\ (bit = NoneArg /\ lookup_table = NoneArg) =>
               /\ thumb'.status = "ValueError"
               /\ thumb'.message = NeitherMessage
               /\ thumb'.io = <<>>
               /\ thumb'.value = NoFile
               /\ out_file' = out_file
          /\ ((bit = NoneArg) # (lookup_table = NoneArg)) => ~ IsFilterArgsError(thumb')]_vars

\* C10 witness: a thumbnail was in place at out, and a call to the file
\* operation with bit 0 and a lookup table has failed with the error of
\* invalid filter arguments with no access made and the thumbnail in place.
C10_Witness ==
  /\ thumb.op = "create_thumbnail_singleband"
  /\ thumb.args.bit = <<0>>
  /\ thumb.args.lookup_table = <<ExampleTable>>
  /\ IsFilterArgsError(thumb)
  /\ thumb.io = <<>>
  /\ out_file.exists
  /\ Len(out_file.bands) = 3

\* ---- C11 ----

RgbOps == {"create_thumbnail", "create_thumbnail_from_numpy"}

\* The thumbnail the last call of create_thumbnail or
\* create_thumbnail_from_numpy left: the file at out, or the bytes returned.
ThumbnailOf(t, file) == IF t.op = "create_thumbnail" THEN file ELSE t.value

\* uint8
IsUint8(band) == \A p \in 1..Len(band.px) : band.px[p] \in 0..255

\* C11: a call of create_thumbnail or create_thumbnail_from_numpy with one
\* single-band input or with three returns with a thumbnail of exactly three
\* bands of 8-bit values, every one of them written from the quicklook.
C11_AlwaysThreeBands ==
  thumb.op \in RgbOps =>
    /\ thumb.status = "ok"
    /\ ThumbnailOf(thumb, out_file).exists
    /\ ThumbnailOf(thumb, out_file).count = 3
    /\ Len(ThumbnailOf(thumb, out_file).bands) = 3
    /\ \A k \in 1..3 : IsUint8(ThumbnailOf(thumb, out_file).bands[k])

\* ---- C12 ----

\* The arrays and the nodata that the files of a call of create_thumbnail
\* hold, as arguments of create_thumbnail_from_numpy.
ArraysOf(rgb) ==
  List([k \in 1..Len(rgb) |-> Typed(rgb[k].file.meta.dtype, Item(rgb[k].file.data, 0))])

\* Every build, as far as the casts to uint8 tell one from another.
Uint8Builds ==
  {Build(of_nan, beyond) :
     of_nan \in IInfo("uint8")[1]..IInfo("uint8")[2],
     beyond \in {"wrap", "indefinite", "saturate"}}

GeoBoxOf(rgb) == <<[shape |-> <<rgb[1].file.meta.height, rgb[1].file.meta.width>>]>>

\* C12: when create_thumbnail has returned, the file at out holds the bands
\* that create_thumbnail_from_numpy returns for the same bands, nodata, grid,
\* stretch, out_scale and resampling (and some build, where a cast is left
\* to it).
C12_SameContent ==
  (thumb.op = "create_thumbnail" /\ thumb.status = "ok") =>
    \E build \in Uint8Builds :
      out_file.bands =
        CreateThumbnailFromNumpy(ArraysOf(thumb.args.rgb), thumb.args.out_scale,
                                 thumb.args.resampling, thumb.args.static_stretch,
                                 GeoBoxOf(thumb.args.rgb),
                                 thumb.args.rgb[1].file.meta.nodata, build).value.bands

\* The two modes agree when the resampling is Resampling.average.
C12_SameContentAverage ==
  (thumb.op = "create_thumbnail" /\ thumb.status = "ok"
     /\ thumb.args.resampling = "average") =>
    \E build \in Uint8Builds :
      out_file.bands =
        CreateThumbnailFromNumpy(ArraysOf(thumb.args.rgb), thumb.args.out_scale,
                                 "average", thumb.args.static_stretch,
                                 GeoBoxOf(thumb.args.rgb),
                                 thumb.args.rgb[1].file.meta.nodata, build).value.bands

\* The caller's typed array a and the array b it is after the call hold the
\* same values: same type, shape and pixels.
SameValues(a, b) == a.dtype = b.dtype /\ a.shape = b.shape /\ a.px = b.px

\* C13: rescale_intensity never changes its caller's data: after every call,
\* whatever the ranges and whether it returns or raises, the image and the
\* null mask the caller passed hold the values they held at the call.
C13_CallerDataUnchanged ==
  thumb.op = "rescale_intensity" =>
    /\ SameValues(thumb.args.image, thumb.value.image)
    /\ thumb.value.image_null_mask = thumb.args.image_null_mask

\* A call that returned an array differing from the image it was given, with
\* a mask that marks a pixel null.
C13_Witness ==
  /\ thumb.op = "rescale_intensity"
  /\ thumb.status = "ok"
  /\ thumb.args.image_null_mask # NoneArg
  /\ \E p \in 1..Len(thumb.args.image.px) : thumb.args.image_null_mask[1].px[p]
  /\ thumb.value.returned[1].px # thumb.args.image.px


\* The last call rescaled the whole range of its image's type, given as
\* Python integers or as numpy scalars of the type, to the whole range of an
\* output type that has a value for every value of the input type, and no
\* pixel was null.
FullRangeLossless(t) ==
  /\ t.op = "rescale_intensity"
  /\ t.status = "ok"
  /\ <<t.args.in_range[1], t.args.in_range[2]>> = IInfo(t.args.image.dtype)
  /\ t.args.out_range \in {NoneArg, <<IInfo(t.args.out_dtype)>>}
  /\ Bits(t.args.out_dtype) >= Bits(t.args.image.dtype)
  /\ IF t.args.image_null_mask # NoneArg
     THEN \A p \in 1..Len(t.args.image.px) : ~ t.args.image_null_mask[1].px[p]
     ELSE \A p \in 1..Len(t.args.image.px) :
            NotEqual(t.args.image.px[p], t.args.image_nodata[1])

\* The whole range of a type, given the way the range is.
FullRangeAs(dtype, range) ==
  IF Len(range) = 4 THEN TypedRange(IInfo(dtype), dtype) ELSE IInfo(dtype)

\* The array a call returned, rescaled back from the whole output range to
\* the whole range of the type it came from, with an empty null mask.
RescaledBack(t, build) ==
  LET returned == t.value.returned[1]
      run == RescaleIntensityRun(returned, FullRangeAs(t.args.out_dtype, t.args.in_range),
                                 NoneArg, NoneArg,
                                 <<Array(returned.shape,
                                         [p \in 1..Len(returned.px) |-> FALSE])>>,
                                 t.args.image.dtype, 0, build)
  IN run.heap[run.returned]

\* The builds that differ on the rescaling back.
BackBuilds(t) ==
  RescaleBuilds(t.value.returned[1], FullRangeAs(t.args.out_dtype, t.args.in_range),
                NoneArg, t.args.image.dtype)

ClaimedXTile(args) ==
  IF args.xtile = NoneArg \/ args.xtile[1] < 0 THEN args.samples ELSE args.xtile[1]

ClaimedYTile(args) ==
  IF args.ytile = NoneArg \/ args.ytile[1] < 0
  THEN (IF 100 < args.lines THEN 100 ELSE args.lines)
  ELSE args.ytile[1]

\* Pixel (y, x) lies in the tile.
InTile(tile, y, x) ==
  /\ tile[1][1] <= y /\ y < tile[1][2]
  /\ tile[2][1] <= x /\ x < tile[2][2]

\* C14: the tiles generate_tiles yields are ((ystart, yend), (xstart, xend)),
\* each non-empty, within [0, lines) x [0, samples) and at most ytile x xtile
\* (with the defaults samples and min(100, lines) for an absent or negative
\* size); they come in row-major order and every pixel of the array lies in
\* exactly one of them.
C14_TilesPartition ==
  (thumb.op = "generate_tiles" /\ thumb.status = "ok") =>
    LET tiles == thumb.value
        args == thumb.args
    IN /\ \A k \in 1..Len(tiles) :
            /\ 0 <= tiles[k][1][1] /\ tiles[k][1][1] < tiles[k][1][2]
            /\ tiles[k][1][2] <= args.lines
            /\ 0 <= tiles[k][2][1] /\ tiles[k][2][1] < tiles[k][2][2]
            /\ tiles[k][2][2] <= args.samples
            /\ tiles[k][1][2] - tiles[k][1][1] <= ClaimedYTile(args)
            /\ tiles[k][2][2] - tiles[k][2][1] <= ClaimedXTile(args)
       /\ \A k \in 1..Len(tiles) - 1 :
            \/ tiles[k][1][1] < tiles[k + 1][1][1]
            \/ /\ tiles[k][1][1] = tiles[k + 1][1][1]
               /\ tiles[k][2][1] < tiles[k + 1][2][1]
       /\ \A y \in 0..args.lines - 1, x \in 0..args.samples - 1 :
            Cardinality({k \in 1..Len(tiles) : InTile(tiles[k], y, x)}) = 1

\* A call with the default tile height on an array of more than 100 lines
\* that yields several rows of several tiles, the last of each cut short.
C14_Witness ==
  /\ thumb.op = "generate_tiles"
  /\ thumb.status = "ok"
  /\ thumb.args.ytile = NoneArg
  /\ thumb.args.lines > 2 * DefaultYTile
  /\ thumb.args.xtile = <<2>>
  /\ thumb.args.samples = 3
  /\ Len(thumb.value) = 6
  /\ thumb.value[6] = <<<<200, 201>>, <<2, 3>>>>


\* An extent lies within another.
Within(inner, outer) ==
  \/ inner.empty
  \/ /\ ~ outer.empty
     /\ outer.minx <= inner.minx /\ inner.maxx <= outer.maxx
     /\ outer.miny <= inner.miny /\ inner.maxy <= outer.maxy

\* C15: whatever the valid-data method, the geometry computed for a grid
\* lies within the grid's pixel rectangle mapped to CRS space: every
\* geometry of the running call and every part of the returned union.
C15_PolygonWithinGrid ==
  /\ \A i \in 1..Len(call.geoms) :
       Within(GeomExtent(call.geoms[i]), BoundingBox(call.geoms[i].grid))
  /\ \A geom \in ret.value.geometry :
       Within(GeomExtent(geom), BoundingBox(geom.grid))

\* A vectorized mask with valid pixels on the image's edge, whose buffered
\* hull reaches one pixel beyond the image before it is clipped.
C15_Witness ==
  \E i \in 1..Len(call.geoms) :
    /\ call.geoms[i].kind = "poly"
    /\ ~ HullExtent(call.geoms[i].grid, call.geoms[i].mask).empty
    /\ ~ Within(BufferExtent(HullExtent(call.geoms[i].grid, call.geoms[i].mask), 1),
                Extent(0, 0, call.geoms[i].grid.shape[2], call.geoms[i].grid.shape[1]))
    /\ GeomExtent(call.geoms[i]) = BoundingBox(call.geoms[i].grid)


\* The named grids whose measurements hold the name.
GridsHolding(named_grids, name) ==
  {i \in 1..Len(named_grids) : name \in Range(MeasurementKeys(named_grids[i].measurements))}

\* C17: when _as_named_grids returns, the named grids are as many as the
\* grids of the registry, no two of them have the same name or the same
\* grid, every grid of the registry is named exactly once and every
\* recorded measurement lies under exactly one named grid.
C17_OneNamePerGrid ==
  (ret.op = "_as_named_grids" /\ ret.status = "ok") =>
    LET named_grids == ret.value.named_grids
    IN /\ Len(named_grids) = Len(measurements_per_grid)
       /\ \A i, j \in 1..Len(named_grids) :
            i # j => /\ named_grids[i].name # named_grids[j].name
                     /\ named_grids[i].grid # named_grids[j].grid
       /\ \A k \in 1..Len(measurements_per_grid) :
            Cardinality({i \in 1..Len(named_grids) :
                           named_grids[i].grid = measurements_per_grid[k].grid}) = 1
       /\ \A name \in AllNames(measurements_per_grid) :
            Cardinality(GridsHolding(named_grids, name)) = 1

\* Three grids were named, two of them with the same resolution name, so
\* that the names come from the letters.
C17_Witness ==
  /\ ret.op = "_as_named_grids"
  /\ ret.status = "ok"
  /\ Len(ret.value.named_grids) = 3
  /\ FallbackReached(measurements_per_grid)
  /\ \E i, j \in 2..3 :
       /\ i # j
       /\ ResolutionName(ret.value.named_grids[i].grid)
            = ResolutionName(ret.value.named_grids[j].grid)

\* The names of the remaining grids all come from one strategy.
AllByCommonName(named_grids, all_measurement_names) ==
  \A i \in 2..Len(named_grids) :
    LET grid_name == CommonGridName(named_grids[i].measurements, all_measurement_names)
    IN grid_name.found /\ named_grids[i].name = grid_name.name

AllByResolution(named_grids) ==
  \A i \in 2..Len(named_grids) : named_grids[i].name = ResolutionName(named_grids[i].grid)

AllByLetter(named_grids) ==
  \A i \in 2..Len(named_grids) : named_grids[i].name = <<Letters[i - 1]>>

\* C18: the strategies never mix.  The names returned beside the default all
\* come from one strategy, with one name for each remaining grid: from the
\* common names when that strategy names every remaining grid, otherwise
\* from the resolutions when that one does, otherwise from the letters; a
\* strategy that was abandoned leaves no name behind.
C18_StagesNeverMix ==
  (ret.op = "_as_named_grids" /\ ret.status = "ok" /\ Len(measurements_per_grid) >= 2) =>
    LET named_grids == ret.value.named_grids
        all_names == AllNames(measurements_per_grid)
        sorted == GridsByFrequency(measurements_per_grid, MaxSize(measurements_per_grid))
    IN /\ [i \in 1..Len(named_grids) |-> named_grids[i].grid]
            = [i \in 1..Len(sorted) |-> sorted[i].grid]
       /\ named_grids[1].name = DefaultName
       /\ IF FirstStrategyFinishes(measurements_per_grid)
          THEN AllByCommonName(named_grids, all_names)
          ELSE IF ~ FallbackReached(measurements_per_grid)
          THEN AllByResolution(named_grids)
          ELSE AllByLetter(named_grids)

\* The first strategy named a grid and was then abandoned at a later one,
\* and the names returned are those of the resolutions alone.
C18_Witness ==
  /\ ret.op = "_as_named_grids"
  /\ ret.status = "ok"
  /\ Len(measurements_per_grid) >= 3
  /\ LET sorted == GridsByFrequency(measurements_per_grid, MaxSize(measurements_per_grid))
         first == NameByCommonName(Tail(sorted), <<NamedEntry(DefaultName, sorted[1])>>,
                                   AllNames(measurements_per_grid))
     IN ~ first.finished /\ Len(first.named_grids) >= 2
  /\ ~ FallbackReached(measurements_per_grid)
  /\ AllByResolution(ret.value.named_grids)

\* The name the claim gives a grid in the resolution strategy: the absolute
\* pixel size as a string, truncated to an integer when above 1 ("30" for
\* 30.5) and as the float is written otherwise ("0.5").  Sizes are in tenths.
ClaimedResolutionName(grid) ==
  LET size == IF grid.affine.a < 0 THEN 0 - grid.affine.a ELSE grid.affine.a
  IN IF size > 10 THEN IntToStr(size \div 10)
     ELSE <<Digits[(size \div 10) + 1], ".", Digits[(size % 10) + 1]>>

\* C19: when the resolution strategy is reached (the common names did not
\* name every remaining grid), each remaining grid is named by its
\* resolution string if these strings differ from each other; if two
\* remaining grids get the same string the strategy is abandoned and
\* the letters name all remaining grids.
C19_ResolutionStage ==
  (/\ ret.op = "_as_named_grids"
   /\ ret.status = "ok"
   /\ Len(measurements_per_grid) >= 2
   /\ ~ FirstStrategyFinishes(measurements_per_grid)) =>
    LET named_grids == ret.value.named_grids
    IN IF \E i, j \in 2..Len(named_grids) :
            /\ i # j
            /\ ClaimedResolutionName(named_grids[i].grid)
                 = ClaimedResolutionName(named_grids[j].grid)
       THEN \A i \in 2..Len(named_grids) : named_grids[i].name = <<Letters[i - 1]>>
       ELSE \A i \in 2..Len(named_grids) :
              named_grids[i].name = ClaimedResolutionName(named_grids[i].grid)

\* The resolution strategy named a grid of 30.5 units "30" and another of
\* 0.5 units "0.5".
C19_Witness ==
  /\ ret.op = "_as_named_grids"
  /\ ret.status = "ok"
  /\ ~ FirstStrategyFinishes(measurements_per_grid)
  /\ \E i, j \in 2..Len(ret.value.named_grids) :
       /\ ret.value.named_grids[i].grid = GridC
       /\ ret.value.named_grids[i].name = <<"3", "0">>
       /\ ret.value.named_grids[j].grid = GridB
       /\ ret.value.named_grids[j].name = <<"0", ".", "5">>


\* The candidates the claim allows for a group among all names: the common
\* prefix if no name outside the group starts with it, the common suffix if
\* no name outside the group ends with it, each stripped of '_' and ':' at
\* both ends.
ClaimedCandidates(group_of_names, names) ==
  LET outside == names \ Range(group_of_names)
      prefix == CommonPrefix(group_of_names)
      suffix == CommonSuffix(group_of_names)
  IN (IF \A o \in outside : ~ StartsWith(o, prefix) THEN {Strip(prefix)} ELSE {})
       \cup (IF \A o \in outside : ~ EndsWith(o, suffix) THEN {Strip(suffix)} ELSE {})

\* C20: _find_a_common_name returns the longer of the stripped candidates,
\* and nothing when there is no candidate or the longer one is empty.  The
\* group nbar_blue, nbar_red alone gives nbar, and nothing when nbar_green
\* and nbart_blue exist outside the group.
C20_CommonName ==
  thumb.op = "_find_a_common_name" =>
    LET group_of_names == thumb.args.group_of_names
        names == IF thumb.args.all_possible_names = NoneArg THEN {}
                 ELSE thumb.args.all_possible_names[1]
        candidates == ClaimedCandidates(group_of_names, names)
    IN /\ IF candidates = {} \/ \A c \in candidates : c = <<>>
          THEN ~ thumb.value.found
          ELSE /\ thumb.value.found
               /\ thumb.value.name \in candidates
               /\ \A c \in candidates : Len(c) <= Len(thumb.value.name)
       /\ (group_of_names = <<nbar_blue, nbar_red>> /\ names = {}) =>
            thumb.value = SomeName(<<"n", "b", "a", "r">>)
       /\ (group_of_names = <<nbar_blue, nbar_red>> /\ {nbar_green, nbart_blue} \subseteq names) =>
            ~ thumb.value.found

\* The call of the example with nbar_green and nbart_blue outside the group,
\* which found nothing.
C20_Witness ==
  /\ thumb.op = "_find_a_common_name"
  /\ thumb.args.group_of_names = <<nbar_blue, nbar_red>>
  /\ thumb.args.all_possible_names = <<{nbar_blue, nbar_red, nbar_green, nbart_blue}>>
  /\ ~ thumb.value.found

\* A name is made of whole tokens of a measurement name when it occurs in
\* it between two delimiters, or between a delimiter and an end of the name.
WholeTokensOf(name, c) ==
  \E i \in 1..(Len(name) - Len(c) + 1) :
    /\ SubSeq(name, i, i + Len(c) - 1) = c
    /\ i = 1 \/ name[i - 1] \in StripChars
    /\ i + Len(c) - 1 = Len(name) \/ name[i + Len(c)] \in StripChars

\* C21: the common name found for a group of two or more measurement names
\* consists of whole tokens of every name of the group: it never starts or
\* ends in the middle of a token delimited by '_' or ':'.
C21_WholeTokens ==
  (/\ thumb.op = "_find_a_common_name"
   /\ Len(thumb.args.group_of_names) >= 2
   /\ thumb.value.found) =>
    \A i \in 1..Len(thumb.args.group_of_names) :
      WholeTokensOf(thumb.args.group_of_names[i], thumb.value.name)

\* C22, in every state: the masks held are those of the grids that a record
\* call which returned, made with expand_valid_data true, was given since
\* the grid's mask was last consumed, and a pixel of a grid's mask is true
\* exactly when one of these calls supplied a pixel holding data there
\* (finite when nodata is NaN, different from nodata otherwise).  The calls
\* made with expand_valid_data false are not among them: they leave every
\* mask as it was.
C22_MaskIsUnionOfValid ==
  /\ GridsOf(mask_by_grid) = GridsOf(history.expanded)
  /\ \A k \in 1..Len(mask_by_grid) :
       LET grid == mask_by_grid[k].grid
       IN \A i \in 1..NumPixels(grid) :
            mask_by_grid[k].mask[i] <=> MaskOf(history.expanded, grid)[i]

\* Three measurements recorded and no mask consumed, the last without
\* expanding the valid data, and a mask with a pixel that some call found
\* valid and a pixel that none did.
C22_Witness ==
  /\ ~ history.consumed
  /\ NumRecorded = 3
  /\ ret.op = "record_image" /\ ret.status = "ok" /\ ~ ret.args.expand_valid_data
  /\ \E k \in 1..Len(mask_by_grid) :
       /\ \E i \in 1..Len(mask_by_grid[k].mask) : mask_by_grid[k].mask[i]
       /\ \E i \in 1..Len(mask_by_grid[k].mask) : ~ mask_by_grid[k].mask[i]
       /\ Len(measurements_per_grid[IndexOfGrid(measurements_per_grid,
                                                mask_by_grid[k].grid)].measurements) = 3

\* The mask after every image has been read, from the k-th image on.
RECURSIVE CombinedMask(_, _, _)
CombinedMask(valid_data_mask, images, k) ==
  IF k > Len(images) THEN valid_data_mask
  ELSE CombinedMask(AndNotEqual(valid_data_mask, images[k].array, images[k].nodata),
                    images, k + 1)

\* The range the claim describes: the percentiles of every band taken over
\* the pixels that are valid in every band, the greatest of the lows and the
\* least of the highs.
RECURSIVE RangeOverCombinedMask(_, _, _, _, _)
RangeOverCombinedMask(combined_mask, images, calculate_percentiles, k, calculated_range) ==
  IF k > Len(images) THEN calculated_range
  ELSE LET the_data == Masked(images[k].array, combined_mask)
       IN RangeOverCombinedMask(
            combined_mask, images, calculate_percentiles, k + 1,
            IF \E n \in 1..Len(the_data) : the_data[n] # 0
            THEN NarrowedRange(ListOf(the_data), images[k].array.dtype,
                               calculate_percentiles[1], calculated_range)
            ELSE calculated_range)

\* C23: the combined validity mask is complete before any percentile is
\* taken: the range returned is made of the percentiles of every band, the
\* first included, over the pixels that are valid in every band.
C23_PercentilesOverCombinedMask ==
  (/\ thumb.op = "read_valid_mask_and_value_range"
   /\ thumb.status = "ok"
   /\ thumb.args.calculate_percentiles # NoneArg) =>
    thumb.value.calculated_range =
      RangeOverCombinedMask(CombinedMask(thumb.args.valid_data_mask, thumb.args.images, 1),
                            thumb.args.images, thumb.args.calculate_percentiles, 1,
                            <<-SysMaxsize - 1, SysMaxsize>>)

\* C29: the range returned for percentiles low <= high is well ordered.
C29_RangeWellOrdered ==
  (/\ thumb.op = "read_valid_mask_and_value_range"
   /\ thumb.status = "ok"
   /\ thumb.args.calculate_percentiles # NoneArg
   /\ thumb.args.calculate_percentiles[1][1] <= thumb.args.calculate_percentiles[1][2]) =>
    thumb.value.calculated_range[1] <= thumb.value.calculated_range[2]

\* The channel the claim describes: every pixel that is not equal to bit is
\* zero, the others are kept.
ClaimedChannel(data, bit) ==
  [data EXCEPT !.px = [p \in 1..Len(data.px) |-> IF data.px[p] # bit THEN 0 ELSE data.px[p]]]

\* C24: a single-band thumbnail call with a bit, 0 included, and no lookup
\* table makes the thumbnail of three copies of the filtered channel with
\* the static stretch (0, bit): written to out from a file of one band, and
\* returned as bytes from an array with its geobox.
C24_BitMode ==
  (/\ thumb.op \in SinglebandOps
   /\ thumb.args.bit # NoneArg
   /\ thumb.args.lookup_table = NoneArg) =>
    LET bit == thumb.args.bit[1]
    IN /\ (thumb.op = "create_thumbnail_singleband" /\ thumb.args.in_file.meta.count = 1) =>
            LET in_file == thumb.args.in_file
                temp_file == [path |-> "temp.tif",
                              file |-> RasterFile(in_file.meta,
                                                  ClaimedChannel(in_file.data, bit))]
            IN /\ thumb.status = "ok"
               /\ \E build \in SinglebandBuilds(thumb.args.bit, NoneArg) :
                    out_file = CreateThumbnail(<<temp_file, temp_file, temp_file>>, NoFile,
                                               DefaultOutScale, "average", <<0, bit>>,
                                               build).out
       /\ (/\ thumb.op = "create_thumbnail_singleband_from_numpy"
           /\ thumb.args.input_geobox # NoneArg) =>
            LET channel == ClaimedChannel(thumb.args.input_data, bit)
            IN /\ thumb.status = "ok"
               /\ \E build \in SinglebandBuilds(thumb.args.bit, NoneArg) :
                    thumb.value =
                      CreateThumbnailFromNumpy(List(<<channel, channel, channel>>),
                                               DefaultOutScale, "average", <<0, bit>>,
                                               thumb.args.input_geobox, thumb.args.nodata,
                                               build).value

\* C25: no step of consume_and_get_valid_data, from its entry to its return
\* or its error, changes the measurements: the named grids and the geo
\* documents computed from the registry are the same before and after it.
C25_ConsumeLeavesMeasurements ==
  [][(pc # "idle" \/ pc' # "idle") =>
       /\ measurements_per_grid' = measurements_per_grid
       /\ AsNamedGrids(measurements_per_grid') = AsNamedGrids(measurements_per_grid)
       /\ AsGeoDocs(measurements_per_grid') = AsGeoDocs(measurements_per_grid)]_vars

\* A consume call has returned the geometry of the masks it drained, and the
\* registry holds its three measurements on two grids as before.
C25_Witness ==
  /\ ret.op = "consume_and_get_valid_data"
  /\ ret.status = "ok"
  /\ ret.value.geometry # {}
  /\ mask_by_grid = <<>>
  /\ Len(measurements_per_grid) = 2
  /\ NumRecorded = 3

\* C26: a record call that fails with the duplicate-measurement error leaves
\* the registry as it was: the measurements of every grid, the grids that
\* have a bucket, and the masks.
C26_DuplicateLeavesRegistry ==
  [][(ret'.op = "record_image" /\ ret'.status = "ValueError") =>
       /\ measurements_per_grid' = measurements_per_grid
       /\ mask_by_grid' = mask_by_grid]_vars

\* A call refused as a duplicate that asked to expand the valid data of a
\* grid which has neither a bucket nor a mask, in a registry that holds
\* another grid's mask.
C26_Witness ==
  /\ ret.op = "record_image"
  /\ ret.status = "ValueError"
  /\ ret.args.expand_valid_data
  /\ NormaliseGrid(ret.args.grid) \notin GridsOf(measurements_per_grid)
  /\ NormaliseGrid(ret.args.grid) \notin GridsOf(mask_by_grid)
  /\ mask_by_grid # <<>>

\* C27: the geo documents returned hold one measurement entry for every
\* recorded measurement name.
C27_OneDocPerMeasurement ==
  (ret.op = "as_geo_docs" /\ ret.status = "ok") =>
    Len(ret.value.docs.measurements) = NumRecorded

\* C28, in every state where a call of consume_and_get_valid_data has
\* returned: the union holds one geometry for each grid that received a
\* record call with expand_valid_data true (since its mask was last
\* consumed), and none for any other grid, whatever the method; under
\* "bounds" each is the grid's box, under the other methods it is empty only
\* when no call supplied a valid pixel.  A grid of the registry whose
\* measurements were all recorded with expand_valid_data false has no part
\* in it.
C28_PolygonsForExpandedGrids ==
  (/\ ret.op = "consume_and_get_valid_data"
   /\ ret.status = "ok") =>
    /\ {geom.grid : geom \in ret.value.geometry} = GridsOf(history.expanded_at_call)
    /\ Cardinality(ret.value.geometry) = Len(history.expanded_at_call)
    /\ \A geom \in ret.value.geometry :
         /\ ret.args.valid_data_method = "bounds" <=> geom.kind = "box"
         /\ GeomExtent(geom).empty <=>
              /\ geom.kind = "poly"
              /\ \A i \in 1..Len(MaskOf(history.expanded_at_call, geom.grid)) :
                   ~ MaskOf(history.expanded_at_call, geom.grid)[i]
    /\ \A k \in 1..Len(measurements_per_grid) :
         measurements_per_grid[k].grid \notin GridsOf(history.expanded_at_call) =>
           \A geom \in ret.value.geometry : geom.grid # measurements_per_grid[k].grid

\* A consume call has returned the box of one grid under "bounds", and the
\* registry holds another grid, which no record call made with
\* expand_valid_data true was given since its mask was last consumed.
C28_Witness ==
  /\ ret.op = "consume_and_get_valid_data"
  /\ ret.status = "ok"
  /\ history.expanded_at_call # <<>>
  /\ ret.args.valid_data_method = "bounds"
  /\ Cardinality(ret.value.geometry) = 1
  /\ Len(measurements_per_grid) = 2
  /\ \E k \in 1..2 :
       measurements_per_grid[k].grid \notin {geom.grid : geom \in ret.value.geometry}

\* The last call is one of rescale_intensity as _write_quicklook makes it:
\* a null mask, the output range (1, 255), the output nodata 0, and an input
\* range with low < high, a static one of Python integers or a calculated
\* one of numpy scalars of the image's type.
QuicklookRescale ==
  /\ thumb.op = "rescale_intensity"
  /\ thumb.status = "ok"
  /\ thumb.args.image_null_mask # NoneArg
  /\ thumb.args.out_range = <<<<1, 255>>>>
  /\ thumb.args.out_dtype = "uint8"
  /\ thumb.args.out_nodata = 0
  /\ thumb.args.in_range[1] < thumb.args.in_range[2]

\* C30, after every such call: each pixel in the null mask is 0 in the
\* returned array and each pixel outside it is a value of 1..255, whether
\* its input value is below the low of the input range, above its high or
\* between them; no valid pixel is written as the nodata value.
C30_ValidNeverNodata ==
  QuicklookRescale =>
    \A p \in 1..Len(thumb.args.image.px) :
      IF thumb.args.image_null_mask[1].px[p]
      THEN thumb.value.returned[1].px[p] = 0
      ELSE thumb.value.returned[1].px[p] \in 1..255

====
